---- MODULE Spec2Model ----
(***************************************************************************)
(* Position sizing, instrument resolution, live-quote fetching, watchlist  *)
(* reconciliation and order submission of the trading backend              *)
(* (core_logic.py, watchlist_helpers.py, tradingview_helper.py).           *)
(*                                                                         *)
(* Money amounts and prices are exact integers in one fixed unit; Python   *)
(* floats are modelled by exact arithmetic on them, int() by truncation    *)
(* toward zero.                                                            *)
(***************************************************************************)
EXTENDS Integers, Sequences, FiniteSets, TLC

VARIABLES
    s3_client,            \* core_logic.s3_client is initialised (TRUE) or None (FALSE)
    dhan,                 \* core_logic.dhan is initialised (TRUE) or None (FALSE)
    primaryTable,         \* S3 object uploads/mapping.csv: sequence of rows
    masterTable,          \* S3 object uploads/master_..._gt500cr.csv: sequence of rows
    _mapping_cache,       \* symbol -> instrument id
    _leverage_cache,      \* instrument id -> MIS leverage
    _mtf_leverage_cache,  \* instrument id -> MTF leverage
    _security_id_cache,   \* symbol -> instrument id (resolution cache)
    firstResolved,        \* history: symbol -> id returned by its first successful resolution
    uploads,              \* number of external table uploads so far
    sizing,               \* the last call of calculate_position_size_mixed and its result
    resolve,              \* the last call of get_cached_security_id and its result
    order,                \* the last call of place_order / create_order_payload and its result
    watchlistDoc,         \* S3 object uploads/momentum_watchlist.csv: sequence of rows
    wl_dhan,              \* watchlist_helpers.dhan is initialised
    wlop,                 \* the last watchlist operation and its result
    fetch,                \* the last call of fetch_live_data and its result
    inflight,             \* a watchlist operation of a concurrent request, between its load and its save
    reload,               \* the last forced reload of the mapping caches and its read outcomes
    tv_dhan,              \* tradingview_helper.dhan is initialised
    _live_data_cache,     \* tradingview_helper: the result of the last bulk quote pass
    _last_live_fetch_time, \* tradingview_helper: time.time() at the start of that pass, or 0
    _df_map,              \* tradingview_helper: the instrument list, None until first used
    clock,                \* time.time(), in seconds
    bulk                  \* the last call of fetch_all_live_data_bulk / refresh_live_data

vars == <<s3_client, dhan, primaryTable, masterTable, _mapping_cache, _leverage_cache,
          _mtf_leverage_cache, _security_id_cache, firstResolved, uploads, sizing,
          resolve, order, watchlistDoc, wl_dhan, wlop, fetch, inflight,
          reload, tv_dhan, _live_data_cache, _last_live_fetch_time, _df_map, clock,
          bulk>>

-----------------------------------------------------------------------------
(* Generic helpers *)

Abs(x) == IF x < 0 THEN -x ELSE x

Min(a, b) == IF a <= b THEN a ELSE b

\* Python int(a / b) for b # 0: the quotient truncated toward zero.
TruncDiv(a, b) ==
    LET q == Abs(a) \div Abs(b)
    IN  IF (a < 0) = (b < 0) THEN q ELSE -q

\* The empty dict.
EmptyMap == [x \in {} |-> 0]

\* d[k] = v, as a dict assignment (adds or overwrites the key).
Put(d, k, v) == [x \in (DOMAIN d) \cup {k} |-> IF x = k THEN v ELSE d[x]]

\* dict.get(k, default)
Get(d, k, default) == IF k \in DOMAIN d THEN d[k] ELSE default

\* str.strip(): the raw strings the model uses, with their surrounding blanks removed.
Strip(s) ==
    CASE s = " infy" -> "infy"
      [] s = "tcs "  -> "tcs"
      [] s = "SL "   -> "SL"
      [] OTHER       -> s

\* str.upper() on the strings the model uses.
Upper(s) ==
    CASE s = "infy"     -> "INFY"
      [] s = " infy"    -> " INFY"
      [] s = "tcs"      -> "TCS"
      [] s = "tcs "     -> "TCS "
      [] s = "intraday" -> "INTRADAY"
      [] s = "margin"   -> "MARGIN"
      [] s = "cnc"      -> "CNC"
      [] s = "limit"    -> "LIMIT"
      [] s = "sl"       -> "SL"
      [] s = "market"   -> "MARKET"
      [] s = "buy"      -> "BUY"
      [] s = "sell"     -> "SELL"
      [] OTHER          -> s

-----------------------------------------------------------------------------
(* Values, results and the records of the last calls *)

\* A caller-supplied value: a number, a text float() cannot convert, or None.
Num(n) == [k |-> "num", v |-> n]
NonNumeric == [k |-> "text", v |-> 0]
NoneValue == [k |-> "none", v |-> 0]

\* float(x) succeeds.
Converts(x) == x.k = "num"

\* A call raises, or returns a value.
Raised == [raised |-> TRUE]
Returned(value) == [raised |-> FALSE, value |-> value]

SizeResult(raised, quantity, expected_loss, exposure, leverage, fund, balanceCalls) ==
    [raised |-> raised, quantity |-> quantity, expected_loss |-> expected_loss,
     exposure |-> exposure, leverage |-> leverage, fund |-> fund,
     balanceCalls |-> balanceCalls]

NoResolve ==
    [called |-> FALSE, symbol |-> "", symbol_u |-> "", ok |-> FALSE, id |-> 0, path |-> "", reads |-> 0,
     hadPrior |-> FALSE, priorId |-> 0, primaryIds |-> {}, masterIds |-> {}]

NoSizing ==
    [called |-> FALSE, price |-> NonNumeric, entry |-> NonNumeric, sl_price |-> NonNumeric,
     sec_id |-> 0, productType |-> "", result |-> SizeResult(FALSE, 0, 0, 0, 0, 0, 0)]

NoOrder ==
    [op |-> "", form_data |-> <<>>, built |-> Raised, outcome |-> Raised,
     resolved |-> FALSE, placeCalls |-> 0,
     response |-> [kind |-> "notcalled", status |-> "", orderId |-> ""]]

NoFetch ==
    [called |-> FALSE, instrument_ids |-> <<>>, outcomes |-> <<>>, raised |-> FALSE,
     live_data |-> EmptyMap, requests |-> <<>>]

\* wOk, mapOk, sOk: the call's read of the watchlist document, its reads of the
\* master list and its write of the watchlist document succeeded.
NoWlop ==
    [op |-> "", raised |-> FALSE, data |-> <<>>, now |-> "",
     live |-> [none |-> TRUE, data |-> EmptyMap], wOk |-> TRUE, mapOk |-> TRUE,
     sOk |-> TRUE]

NoReload == [called |-> FALSE, pOk |-> FALSE, mOk |-> FALSE]

\* No operation is between its load and its save; others counts the operations of
\* other requests that have completed.
NoInflight ==
    [phase |-> "none", op |-> "", data |-> <<>>, symbol |-> "", entry_price |-> NonNumeric,
     index |-> 0, live |-> [none |-> TRUE, data |-> EmptyMap], now |-> "",
     before |-> <<>>, wrote |-> FALSE, others |-> 0]

\* No call of the bulk fetcher observed.  at: time.time() at the call; priorCache,
\* priorTime: _live_data_cache and _last_live_fetch_time when the call began.
NoBulk ==
    [op |-> "", at |-> 0, priorCache |-> EmptyMap, priorTime |-> 0, result |-> EmptyMap,
     requests |-> <<>>, outcomes |-> <<>>]

\* _df_map = None
NoDfMap == [loaded |-> FALSE, ids |-> <<>>]

\* time.time() when the process starts: seconds since the epoch, far above the
\* cache duration.
ClockStart == 100000

\* No call is waiting for its result to be looked at.
Idle ==
    /\ sizing = NoSizing
    /\ resolve = NoResolve
    /\ order = NoOrder
    /\ wlop = NoWlop
    /\ fetch = NoFetch
    /\ reload = NoReload
    /\ bulk = NoBulk

\* The caller has taken the result of the last call; the program state stays.
Forget ==
    /\ ~Idle
    /\ sizing' = NoSizing
    /\ resolve' = NoResolve
    /\ order' = NoOrder
    /\ wlop' = NoWlop
    /\ fetch' = NoFetch
    /\ reload' = NoReload
    /\ bulk' = NoBulk
    /\ UNCHANGED <<s3_client, dhan, primaryTable, masterTable, _mapping_cache,
                   _leverage_cache, _mtf_leverage_cache, _security_id_cache,
                   firstResolved, uploads, watchlistDoc, wl_dhan, inflight,
                   tv_dhan, _live_data_cache, _last_live_fetch_time, _df_map, clock>>

-----------------------------------------------------------------------------
(* Backing tables and mapping caches (core_logic.py) *)

Row(name, inst, instOk, mis, misOk, mtf, mtfOk) ==
    [name |-> name, inst |-> inst, instOk |-> instOk,
     mis |-> mis, misOk |-> misOk, mtf |-> mtf, mtfOk |-> mtfOk]

\* Rows of uploads/mapping.csv: Stock Name, Instrument ID (instOk: int() converts it),
\* MIS_LEVERAGE and MTF_LEVERAGE (misOk, mtfOk: float() converts them).
PrimaryRows ==
    { Row("INFY",  1, TRUE,  5, TRUE, 3, TRUE),
      Row(" infy", 3, TRUE,  4, TRUE, 4, TRUE),
      Row("TCS",   0, FALSE, 1, TRUE, 1, TRUE) }

\* Rows of the master list.
MasterRows ==
    { Row("INFY",  2, TRUE, 2, TRUE,  2, TRUE),
      Row("tcs ",  4, TRUE, 1, TRUE,  1, TRUE),
      Row("TCS",   5, TRUE, 3, FALSE, 3, TRUE) }

MaxRows == 2

SeqsUpTo(S, n) == UNION { [1..k -> S] : k \in 0..n }

PrimaryTables == SeqsUpTo(PrimaryRows, MaxRows)
MasterTables  == SeqsUpTo(MasterRows, MaxRows)

\* The caches as one value: mapping, MIS leverage, MTF leverage, and the number of
\* backing-table reads issued so far in the current call.
Caches(map, lev, mtf, reads) == [map |-> map, lev |-> lev, mtf |-> mtf, reads |-> reads]

\* One row of the primary loop: a row whose Instrument ID does not convert is skipped
\* whole; a leverage cell that does not convert ends the row after the writes before it.
PrimaryRowStep(c, row) ==
    LET stock == Upper(Strip(row.name))
        c1 == [c  EXCEPT !.map = Put(c.map, stock, row.inst)]
        c2 == [c1 EXCEPT !.lev = Put(c1.lev, row.inst, row.mis)]
        c3 == [c2 EXCEPT !.mtf = Put(c2.mtf, row.inst, row.mtf)]
    IN  IF ~row.instOk THEN c
        ELSE IF ~row.misOk THEN c1
        ELSE IF ~row.mtfOk THEN c2
        ELSE c3

\* One row of the master loop: symbols already in the mapping are skipped.
MasterRowStep(c, row) ==
    IF Upper(Strip(row.name)) \in DOMAIN c.map THEN c ELSE PrimaryRowStep(c, row)

RECURSIVE PrimaryLoop(_, _, _)
PrimaryLoop(c, table, i) ==
    IF i > Len(table) THEN c ELSE PrimaryLoop(PrimaryRowStep(c, table[i]), table, i + 1)

RECURSIVE MasterLoop(_, _, _)
MasterLoop(c, table, i) ==
    IF i > Len(table) THEN c ELSE MasterLoop(MasterRowStep(c, table[i]), table, i + 1)

\* load_mapping_from_s3: no read without a client; a failed read gives None.
\* pOk: the read of the primary table succeeds.
LoadPrimary(c, pOk) ==
    IF ~s3_client THEN [c |-> c, df |-> <<>>]
    ELSE [c |-> [c EXCEPT !.reads = @ + 1], df |-> IF pOk THEN primaryTable ELSE <<>>]

\* The master part of build_mapping_caches: the read and the loop sit in one try.
\* mOk: the read of the master table succeeds.
LoadMaster(c, mOk) ==
    IF ~s3_client THEN c
    ELSE LET c1 == [c EXCEPT !.reads = @ + 1]
         IN  IF mOk THEN MasterLoop(c1, masterTable, 1) ELSE c1

\* build_mapping_caches(force_reload) from caches c.
BuildMappingCaches(c, force_reload, pOk, mOk) ==
    IF c.map # EmptyMap /\ ~force_reload THEN c
    ELSE LET p == LoadPrimary(c, pOk)
         IN  LoadMaster(PrimaryLoop(p.c, p.df, 1), mOk)

CurrentCaches == Caches(_mapping_cache, _leverage_cache, _mtf_leverage_cache, 0)

-----------------------------------------------------------------------------
(* Security ID resolver (core_logic.py) *)

\* Symbols as callers type them.
RawSymbols == {"INFY", " infy", "tcs ", "WIPRO"}

\* Variant: the resolved id is not written to the resolution cache.
RememberNothing(sec, symbol_u, sec_id) == sec

\* _security_id_cache[symbol_u] = sec_id
Remember(sec, symbol_u, sec_id) == Put(sec, symbol_u, sec_id)

\* The rows of the master list that the direct lookup selects:
\* df[df["Stock Name"].str.upper() == symbol_u], in table order.
DirectMatches(symbol_u) ==
    SelectSeq(masterTable, LAMBDA row : Upper(row.name) = symbol_u)

\* What a call returns or raises, and the state it leaves.
ResolveResult(ok, id, path, c, sec) ==
    [ok |-> ok, id |-> id, path |-> path, c |-> c, sec |-> sec]

\* Variant: no direct lookup, the call fails once the rebuilt mapping misses.
DirectLookupSkipped(symbol_u, c, dOk) ==
    ResolveResult(FALSE, 0, "notfound", c, _security_id_cache)

\* The direct lookup in the master list, after the mapping and the rebuild missed.
\* dOk: the read of the master list succeeds.
DirectLookup(symbol_u, c, dOk) ==
    LET c1   == [c EXCEPT !.reads = @ + 1]
        rows == DirectMatches(symbol_u)
    IN  IF ~s3_client THEN ResolveResult(FALSE, 0, "nos3", c, _security_id_cache)
        ELSE IF ~dOk THEN ResolveResult(FALSE, 0, "readfailed", c1, _security_id_cache)
        ELSE IF rows = <<>> THEN ResolveResult(FALSE, 0, "notfound", c1, _security_id_cache)
        ELSE IF ~rows[1].instOk
             THEN ResolveResult(FALSE, 0, "malformed", c1, _security_id_cache)
        ELSE ResolveResult(TRUE, rows[1].inst, "direct", c1,
                           Remember(_security_id_cache, symbol_u, rows[1].inst))

\* get_cached_security_id(symbol): pOk, mOk are the outcomes of the rebuild's two reads.
GetCachedSecurityId(symbol, pOk, mOk, dOk) ==
    LET symbol_u == Upper(Strip(symbol))
        c0       == CurrentCaches
        c1       == BuildMappingCaches(c0, TRUE, pOk, mOk)
    IN  IF symbol_u \in DOMAIN _security_id_cache
        THEN ResolveResult(TRUE, _security_id_cache[symbol_u], "cache", c0, _security_id_cache)
        ELSE IF symbol_u \in DOMAIN _mapping_cache
        THEN ResolveResult(TRUE, _mapping_cache[symbol_u], "mapping", c0,
                           Remember(_security_id_cache, symbol_u, _mapping_cache[symbol_u]))
        ELSE IF symbol_u \in DOMAIN c1.map
        THEN ResolveResult(TRUE, c1.map[symbol_u], "rebuild", c1,
                           Remember(_security_id_cache, symbol_u, c1.map[symbol_u]))
        ELSE DirectLookup(symbol_u, c1, dOk)

\* The instrument ids the well-formed rows of a table give for a symbol.
TableIds(table, symbol_u) ==
    { table[i].inst : i \in { j \in 1..Len(table) :
                              table[j].instOk /\ Upper(Strip(table[j].name)) = symbol_u } }


\* The record of a call: its result, plus what held when it was made.
ResolveRecord(symbol, r) ==
    LET symbol_u == Upper(Strip(symbol))
    IN  [called |-> TRUE, symbol |-> symbol, symbol_u |-> symbol_u, ok |-> r.ok, id |-> r.id, path |-> r.path,
         reads |-> r.c.reads,
         hadPrior |-> symbol_u \in DOMAIN firstResolved,
         priorId |-> Get(firstResolved, symbol_u, 0),
         primaryIds |-> TableIds(primaryTable, symbol_u),
         masterIds |-> TableIds(masterTable, symbol_u)]

\* The state change of a call of get_cached_security_id with result r.
ApplyResolve(symbol, r) ==
    /\ _mapping_cache' = r.c.map
    /\ _leverage_cache' = r.c.lev
    /\ _mtf_leverage_cache' = r.c.mtf
    /\ _security_id_cache' = r.sec
    /\ firstResolved' = IF r.ok /\ Upper(Strip(symbol)) \notin DOMAIN firstResolved
                        THEN Put(firstResolved, Upper(Strip(symbol)), r.id)
                        ELSE firstResolved
    /\ resolve' = ResolveRecord(symbol, r)

\* A caller resolves a symbol.
Resolve ==
    \E symbol \in RawSymbols, pOk, mOk, dOk \in BOOLEAN :
        /\ Idle
        /\ ApplyResolve(symbol, GetCachedSecurityId(symbol, pOk, mOk, dOk))
        /\ UNCHANGED <<s3_client, dhan, primaryTable, masterTable, uploads, sizing, order,
                       watchlistDoc, wl_dhan, wlop, fetch, inflight, reload,
                       tv_dhan, _live_data_cache, _last_live_fetch_time, _df_map, clock, bulk>>

\* build_mapping_caches(force_reload=True), as application.py calls it.
ForcedReload ==
    \E pOk, mOk \in BOOLEAN :
        LET c == BuildMappingCaches(CurrentCaches, TRUE, pOk, mOk)
        IN  /\ Idle
            /\ _mapping_cache' = c.map
            /\ _leverage_cache' = c.lev
            /\ _mtf_leverage_cache' = c.mtf
            /\ reload' = [called |-> TRUE, pOk |-> pOk, mOk |-> mOk]
            /\ UNCHANGED <<s3_client, dhan, primaryTable, masterTable, _security_id_cache,
                           firstResolved, uploads, sizing, resolve, order, watchlistDoc,
                           wl_dhan, wlop, fetch, inflight,
                           tv_dhan, _live_data_cache, _last_live_fetch_time, _df_map, clock, bulk>>

MaxUploads == 1

\* The uploader replaces the backing tables in the bucket.
UploadTables ==
    /\ Idle
    /\ uploads < MaxUploads
    /\ uploads' = uploads + 1
    /\ primaryTable' \in PrimaryTables
    /\ masterTable' \in MasterTables
    /\ UNCHANGED <<s3_client, dhan, _mapping_cache, _leverage_cache, _mtf_leverage_cache,
                   _security_id_cache, firstResolved, sizing, resolve, order, watchlistDoc,
                   wl_dhan, wlop, fetch, inflight, reload,
                   tv_dhan, _live_data_cache, _last_live_fetch_time, _df_map, clock, bulk>>

-----------------------------------------------------------------------------
(* Account balance and position sizing (core_logic.py) *)

\* Responses of the provider's get_fund_limits: it raises, returns something that is
\* no dict, returns a dict without a balance, or returns a balance.
BalanceValues == {-150, 0, 250, 5000}

FundResponses ==
    { [kind |-> "raise", bal |-> 0], [kind |-> "notdict", bal |-> 0],
      [kind |-> "nobalance", bal |-> 0] }
    \cup { [kind |-> "balance", bal |-> b] : b \in BalanceValues }

\* get_available_balance(): 0.0 without a client, on an exception, on a response that
\* is no dict, and on a missing or zero balance.
GetAvailableBalance(resp) ==
    IF ~dhan THEN 0
    ELSE IF resp.kind = "balance" THEN resp.bal
    ELSE 0

MAX_LOSS_INTRADAY == 1000
MAX_LOSS_OTHER == 1500

\* ptype = (productType or "INTRADAY").upper()
ProductType(productType) == IF productType = "" THEN "INTRADAY" ELSE Upper(productType)

MaxLoss(ptype) == IF ptype = "INTRADAY" THEN MAX_LOSS_INTRADAY ELSE MAX_LOSS_OTHER

\* Variant: the quotient rounded up instead of truncated.
QtyByRiskRoundedUp(max_loss, sl_point) == TruncDiv(max_loss + sl_point - 1, sl_point)

\* qty_by_risk = int(max_loss / sl_point), sl_point # 0
QtyByRisk(max_loss, sl_point) == TruncDiv(max_loss, sl_point)

\* qty_by_fund = int(eff_fund / price), price # 0
QtyByFund(eff_fund, price) == TruncDiv(eff_fund, price)

\* quantity = min(qty_by_risk, qty_by_fund)
Quantity(qty_by_risk, qty_by_fund) == Min(qty_by_risk, qty_by_fund)

\* Variant: a product type other than MARGIN looks up the intraday leverage.
LeverageIntradayDefault(ptype, sec_id) ==
    IF ptype = "MARGIN" THEN Get(_mtf_leverage_cache, sec_id, 1)
    ELSE Get(_leverage_cache, sec_id, 1)

\* The leverage of the fund constraint.
Leverage(ptype, sec_id) ==
    IF ptype = "INTRADAY" THEN Get(_leverage_cache, sec_id, 1)
    ELSE IF ptype = "MARGIN" THEN Get(_mtf_leverage_cache, sec_id, 1)
    ELSE 1

\* Variant: no early return, so the division by the zero distance raises.
ZeroRiskRaises(resp) == SizeResult(TRUE, 0, 0, 0, 1, 0, 0)

\* The value returned when entry equals the stop price.
ZeroRiskResult(resp) == SizeResult(FALSE, 0, 0, 0, 1, GetAvailableBalance(resp), 1)

\* Variant: the failed conversion is not caught.
ConversionRaises == SizeResult(TRUE, 0, 0, 0, 0, 0, 0)

\* except Exception: return 0, 0.0, 0.0, 1.0, 0.0
ConversionFailed == SizeResult(FALSE, 0, 0, 0, 1, 0, 0)

\* calculate_position_size_mixed(price, entry, sl_price, sec_id, productType);
\* resp is what the provider answers if the balance is asked for.
CalculatePositionSizeMixed(price, entry, sl_price, sec_id, productType, resp) ==
    IF ~(Converts(price) /\ Converts(entry) /\ Converts(sl_price))
    THEN ConversionFailed
    ELSE
    LET sl_point    == Abs(entry.v - sl_price.v)
        ptype       == ProductType(productType)
        max_loss    == MaxLoss(ptype)
        qty_by_risk == QtyByRisk(max_loss, sl_point)
        leverage    == Leverage(ptype, sec_id)
        fund        == GetAvailableBalance(resp)
        eff_fund    == fund * leverage
        qty_by_fund == QtyByFund(eff_fund, price.v)
        quantity    == Quantity(qty_by_risk, qty_by_fund)
    IN  IF sl_point = 0 THEN ZeroRiskResult(resp)
        ELSE IF price.v = 0 THEN SizeResult(TRUE, 0, 0, 0, leverage, fund, 1)
        ELSE SizeResult(FALSE, quantity, quantity * sl_point, quantity * price.v,
                        leverage, fund, 1)

PriceInputs == { Num(n) : n \in {-100, 0, 7, 100} } \cup {NonNumeric}
EntryInputs == { Num(n) : n \in {0, 97, 100, 400} } \cup {NonNumeric}
StopInputs  == { Num(n) : n \in {0, 90, 100} } \cup {NonNumeric}
SecIds      == {1, 2, 9}
ProductTypes == {"INTRADAY", "intraday", "MARGIN", "CNC", ""}


\* A caller sizes a position.
Size ==
    \E price \in PriceInputs, entry \in EntryInputs, sl_price \in StopInputs,
       sec_id \in SecIds, productType \in ProductTypes, resp \in FundResponses :
        /\ Idle
        /\ sizing' = [called |-> TRUE, price |-> price, entry |-> entry,
                      sl_price |-> sl_price, sec_id |-> sec_id, productType |-> productType,
                      result |-> CalculatePositionSizeMixed(price, entry, sl_price, sec_id,
                                                            productType, resp)]
        /\ UNCHANGED <<s3_client, dhan, primaryTable, masterTable, _mapping_cache,
                       _leverage_cache, _mtf_leverage_cache, _security_id_cache,
                       firstResolved, uploads, resolve, order, watchlistDoc, wl_dhan,
                       wlop, fetch, inflight, reload,
                       tv_dhan, _live_data_cache, _last_live_fetch_time, _df_map, clock, bulk>>

-----------------------------------------------------------------------------
(* Order payload and submission (core_logic.py) *)

\* x or 0
OrZero(x) == IF x.k = "none" \/ (x.k = "num" /\ x.v = 0) THEN Num(0) ELSE x

\* The provider's codes (dhanhq constants).
TransactionCode(transaction_type) == IF transaction_type = "SELL" THEN "dhan.SELL" ELSE "dhan.BUY"

OrderTypeCode(order_type) ==
    CASE order_type = "LIMIT" -> "dhan.LIMIT"
      [] order_type = "SL"    -> "dhan.SL"
      [] OTHER                -> "dhan.MARKET"

ProductCode(product_type) ==
    CASE product_type = "CNC"    -> "dhan.CNC"
      [] product_type = "MARGIN" -> "dhan.MARGIN"
      [] OTHER                   -> "dhan.INTRA"

\* Variant: the price is carried for LIMIT orders only.
PayloadPriceLimitOnly(order_type, limit_price) ==
    IF order_type = "LIMIT" THEN limit_price ELSE 0

\* 'price': limit_price if order_type in ['LIMIT', 'SL'] else 0
PayloadPrice(order_type, limit_price) ==
    IF order_type \in {"LIMIT", "SL"} THEN limit_price ELSE 0

\* if order_type == 'SL': payload['trigger_price'] = trigger_price
WithTrigger(payload, order_type, trigger_price) ==
    IF order_type = "SL" THEN payload @@ ("trigger_price" :> trigger_price) ELSE payload

\* create_order_payload(form_data, security_id)
CreateOrderPayload(form_data, security_id) ==
    LET order_type       == Upper(form_data.order_type)
        transaction_type == Upper(form_data.transaction_type)
        product_type     == Upper(form_data.productType)
        qty              == IF transaction_type = "BUY" THEN Abs(form_data.qty.v)
                            ELSE form_data.qty.v
        limit_price      == OrZero(form_data.limit_price)
        trigger_price    == OrZero(form_data.trigger_price)
        payload ==
            [security_id |-> security_id,
             exchange_segment |-> "dhan.NSE",
             transaction_type |-> TransactionCode(transaction_type),
             order_type |-> OrderTypeCode(order_type),
             quantity |-> qty,
             product_type |-> ProductCode(product_type),
             price |-> PayloadPrice(order_type, limit_price.v),
             after_market_order |-> FALSE,
             disclosed_quantity |-> 0,
             validity |-> "DAY"]
    IN  IF ~Converts(form_data.qty) \/ ~Converts(limit_price) \/ ~Converts(trigger_price)
        THEN Raised
        ELSE IF security_id = 0 THEN Raised
        ELSE IF ~dhan THEN Raised
        ELSE Returned(WithTrigger(payload, order_type, trigger_price.v))

\* What the provider's place_order does: it raises, answers something that is no
\* dict, or answers a dict with a status.
OrderResponses ==
    { [kind |-> "raise",   status |-> "",        orderId |-> ""],
      [kind |-> "notdict", status |-> "",        orderId |-> ""],
      [kind |-> "dict",    status |-> "success", orderId |-> "1001"],
      [kind |-> "dict",    status |-> "success", orderId |-> ""],
      [kind |-> "dict",    status |-> "failure", orderId |-> ""],
      [kind |-> "dict",    status |-> "",        orderId |-> ""] }

Success(order_id) == [success |-> TRUE, order_id |-> order_id]
Failure(message) == [success |-> FALSE, message |-> message]

\* The status test of place_order.
StatusIsSuccess(response) == response.status = "success"

\* The part of place_order after the payload is built: the provider call and the
\* normalisation of its answer.
Submit(response) ==
    IF response.kind \in {"raise", "notdict"} THEN Raised
    ELSE IF StatusIsSuccess(response) THEN Returned(Success(response.orderId))
    ELSE Returned(Failure("Order Failed"))

\* Variant: no except clause, the exception reaches the caller.
ExceptHandlerMissing(body) == body

\* except Exception as e: return {"success": False, "message": str(e)}
ExceptHandler(body) == IF body.raised THEN Returned(Failure("exception")) ELSE body

\* Variant: the request is sent once the symbol is resolved, payload built or not.
OrderSentBeforeBuild(r, built) == r.ok /\ r.id # 0

\* dhan.place_order(**payload) is reached: the resolver returned an id and
\* create_order_payload returned a payload.
OrderSent(r, built) == r.ok /\ r.id # 0 /\ ~built.raised

\* place_order(...): r is the outcome of get_cached_security_id, response what the
\* provider does if it is called.  Gives the outcome and the trace of the call.
PlaceOrder(form_data, r, response) ==
    LET built == CreateOrderPayload(form_data, r.id)
        body  == IF ~r.ok THEN Raised
                 ELSE IF r.id = 0 THEN Returned(Failure("not found"))
                 ELSE IF built.raised THEN Raised
                 ELSE Submit(response)
        sent  == OrderSent(r, built)
    IN  [outcome |-> ExceptHandler(body),
         resolved |-> r.ok /\ r.id # 0,
         built |-> IF r.ok /\ r.id # 0 THEN built ELSE Raised,
         placeCalls |-> IF sent THEN 1 ELSE 0,
         response |-> IF sent THEN response
                      ELSE [kind |-> "notcalled", status |-> "", orderId |-> ""]]

FormData ==
    [symbol : {"INFY", "WIPRO"},
     transaction_type : {"BUY", "sell"},
     qty : {Num(-5), NonNumeric},
     productType : {"cnc"},
     order_type : {"MARKET", "LIMIT", "limit", "SL", "sl", "SL "},
     limit_price : {Num(1500), NoneValue},
     trigger_price : {Num(1490), NoneValue}]


\* A caller builds a payload for an instrument id.
BuildPayload ==
    \E form_data \in FormData, security_id \in {0, 1, 4} :
        /\ Idle
        /\ order' = [NoOrder EXCEPT !.op = "create_order_payload",
                                    !.form_data = form_data,
                                    !.built = CreateOrderPayload(form_data, security_id)]
        /\ UNCHANGED <<s3_client, dhan, primaryTable, masterTable, _mapping_cache,
                       _leverage_cache, _mtf_leverage_cache, _security_id_cache,
                       firstResolved, uploads, sizing, resolve, watchlistDoc, wl_dhan,
                       wlop, fetch, inflight, reload,
                       tv_dhan, _live_data_cache, _last_live_fetch_time, _df_map, clock, bulk>>

\* A caller places an order: the resolution it starts with changes the caches.
Place ==
    \E form_data \in FormData, pOk, mOk, dOk \in BOOLEAN, response \in OrderResponses :
        LET r == GetCachedSecurityId(form_data.symbol, pOk, mOk, dOk)
            p == PlaceOrder(form_data, r, response)
        IN  /\ Idle
            /\ ApplyResolve(form_data.symbol, r)
            /\ order' = [op |-> "place_order", form_data |-> form_data, built |-> p.built,
                         outcome |-> p.outcome, resolved |-> p.resolved,
                         placeCalls |-> p.placeCalls, response |-> p.response]
            /\ UNCHANGED <<s3_client, dhan, primaryTable, masterTable, uploads, sizing,
                           watchlistDoc, wl_dhan, wlop, fetch, inflight, reload,
                           tv_dhan, _live_data_cache, _last_live_fetch_time, _df_map, clock, bulk>>

-----------------------------------------------------------------------------
(* Live quote fetching (watchlist_helpers.py) *)

BATCH_SIZE == 1000

\* Variant: only full slices are produced.
BatchCountFullOnly(lst, n) == Len(lst) \div n

\* batch_list(lst, n): the slices lst[i:i+n] for i = 0, n, 2n, ...
BatchCount(lst, n) == (Len(lst) + n - 1) \div n

BatchList(lst, n) ==
    [b \in 1..BatchCount(lst, n) |->
        SubSeq(lst, (b - 1) * n + 1, Min(b * n, Len(lst)))]

\* What the provider does with one batch: its call raises, its answer cannot be read
\* as quotes, or it answers quotes for all, none or the first of the ids asked.
BatchOutcomes == {"raise", "malformed", "all", "none", "first"}

\* The provider's quote for an instrument asked in batch number b.
ProviderQuote(id, b) == [last_price |-> 100 + b]

\* The ids a succeeding batch call returns quotes for.
Answered(batch, outcome) ==
    CASE outcome = "all"   -> { batch[i] : i \in 1..Len(batch) }
      [] outcome = "first" -> { batch[i] : i \in 1..Min(1, Len(batch)) }
      [] OTHER             -> {}

\* The try body of one batch: the provider call, the reading of its answer and
\* live_data.update({int(k): v for k, v in batch_data.items()}).
BatchBody(live_data, batch, b, outcome) ==
    LET got == Answered(batch, outcome)
    IN  IF outcome \in {"raise", "malformed"}
        THEN [raised |-> TRUE, live_data |-> live_data]
        ELSE [raised |-> FALSE,
              live_data |-> [id \in (DOMAIN live_data) \cup got |->
                                IF id \in got THEN ProviderQuote(id, b) ELSE live_data[id]]]

\* Variant: no except clause around the batch.
BatchStepNoExcept(live_data, batch, b, outcome) == BatchBody(live_data, batch, b, outcome)

\* One batch with its except clause: a failure is logged and the batch skipped.
BatchStep(live_data, batch, b, outcome) ==
    LET r == BatchBody(live_data, batch, b, outcome)
    IN  IF r.raised THEN [raised |-> FALSE, live_data |-> live_data] ELSE r

\* The loop over the batches; an exception leaving a batch would end the call.
RECURSIVE FetchLoop(_, _, _, _, _)
FetchLoop(live_data, requests, batches, outcomes, b) ==
    IF b > Len(batches)
    THEN [raised |-> FALSE, live_data |-> live_data, requests |-> requests]
    ELSE LET r == BatchStep(live_data, batches[b], b, outcomes[b])
         IN  IF r.raised
             THEN [raised |-> TRUE, live_data |-> EmptyMap,
                   requests |-> Append(requests, batches[b])]
             ELSE FetchLoop(r.live_data, Append(requests, batches[b]), batches,
                            outcomes, b + 1)

\* fetch_live_data(instrument_ids): the quotes returned and the requests issued.
FetchLiveData(instrument_ids, outcomes) ==
    IF ~wl_dhan THEN [raised |-> FALSE, live_data |-> EmptyMap, requests |-> <<>>]
    ELSE FetchLoop(EmptyMap, <<>>, BatchList(instrument_ids, BATCH_SIZE), outcomes, 1)

\* The instrument ids of a watchlist of n rows: the ids 1..MaxDistinct, repeated from
\* the start when the watchlist holds more rows than that.
MaxDistinct == 1500

IdList(n) == [i \in 1..n |-> ((i - 1) % MaxDistinct) + 1]

ListLengths ==
    {0, 1, BATCH_SIZE, BATCH_SIZE + 1, BATCH_SIZE + BATCH_SIZE \div 2, 2 * BATCH_SIZE + 1}


\* A caller fetches the quotes of a list of instrument ids.
Fetch ==
    \E n \in ListLengths :
        \E outcomes \in [1..BatchCount(IdList(n), BATCH_SIZE) -> BatchOutcomes] :
            LET r == FetchLiveData(IdList(n), outcomes)
            IN  /\ Idle
                /\ fetch' = [called |-> TRUE, instrument_ids |-> IdList(n),
                             outcomes |-> outcomes, raised |-> r.raised,
                             live_data |-> r.live_data, requests |-> r.requests]
                /\ UNCHANGED <<s3_client, dhan, primaryTable, masterTable, _mapping_cache,
                               _leverage_cache, _mtf_leverage_cache, _security_id_cache,
                               firstResolved, uploads, sizing, resolve, order,
                               watchlistDoc, wl_dhan, wlop, inflight, reload,
                               tv_dhan, _live_data_cache, _last_live_fetch_time, _df_map, clock, bulk>>

-----------------------------------------------------------------------------
(* Watchlist document and reconciliation (watchlist_helpers.py) *)

\* Cell values besides Num, NonNumeric and NoneValue: the empty string a new row is
\* built with, and the NaN an empty CSV cell is read back as.
EmptyString == [k |-> "empty", v |-> 0]
NaN == [k |-> "nan", v |-> 0]

\* A cell written by to_csv and read back by read_csv: empty cells come back as NaN.
CsvCell(x) == IF x.k \in {"empty", "none", "nan"} THEN NaN ELSE x

\* The same for the text columns, where "nan" stands for the NaN read back.
CsvText(s) == IF s \in {"", "nan"} THEN "nan" ELSE s

NumericFields == {"Instrument ID", "Entry Price", "LTP", "High", "Low", "% Change"}
TextFields == {"Stock Name", "Time", "Breakout", "Action"}

\* save_csv_to_s3 followed by load_csv_from_s3 and to_dict(orient="records").
CsvRow(row) ==
    [f \in DOMAIN row |-> IF f \in NumericFields THEN CsvCell(row[f]) ELSE CsvText(row[f])]

CsvRoundTrip(data) == [i \in 1..Len(data) |-> CsvRow(data[i])]

\* row.update(d): the keys of d overwrite or extend the row.
Update(row, d) == [f \in (DOMAIN row) \cup (DOMAIN d) |-> IF f \in DOMAIN d THEN d[f] ELSE row[f]]

\* load_watchlist(): the stored rows, or [] when the read fails or finds nothing.
\* wOk: the read of the watchlist document succeeds.
LoadWatchlist(wOk) == IF wOk THEN watchlistDoc ELSE <<>>

\* save_watchlist(data): the document after the write; a failed write is logged.
\* sOk: the write succeeds.
SaveWatchlist(data, sOk) == IF sOk THEN CsvRoundTrip(data) ELSE watchlistDoc

\* load_mapping(): Stock Name -> row of the master list, a later row replacing an
\* earlier one of the same name.  (A failed read raises KeyError in dropna.)
MappingRows(name) == SelectSeq(masterTable, LAMBDA row : row.name = name)

MappingHas(name) == MappingRows(name) # <<>>

MappingInstrument(name) ==
    LET rows == MappingRows(name)
        row  == rows[Len(rows)]
    IN  IF row.instOk THEN Num(row.inst) ELSE NonNumeric

\* The quotes supplied to a pass: None, or a dict instrument id -> quote.
Quote(last_price, ohlc, high, low, close) ==
    [last_price |-> last_price, ohlc |-> ohlc, high |-> high, low |-> low, close |-> close]

QuoteSet == { Quote(90, FALSE, 0, 0, 0), Quote(100, TRUE, 120, 80, 100),
              Quote(110, TRUE, 120, 80, 100) }

QuotedIds == {2}

LiveInputs ==
    { [none |-> TRUE, data |-> EmptyMap] }
    \cup { [none |-> FALSE, data |-> m] :
             m \in UNION { [S -> QuoteSet] : S \in SUBSET QuotedIds } }

\* round(x, 2) of a percentage, kept in hundredths of a percent.
RoundDiv(a, b) == TruncDiv(2 * a + (IF (a < 0) = (b < 0) THEN b ELSE -b), 2 * b)

PctChange(ltp, prev_close) ==
    IF prev_close = 0 THEN 0 ELSE RoundDiv((ltp - prev_close) * 10000, prev_close)

QuoteFields(ltp, high, low, pct) ==
    ("LTP" :> Num(ltp)) @@ ("High" :> Num(high)) @@ ("Low" :> Num(low))
    @@ ("% Change" :> Num(pct))

\* Variant: without a quote the row keeps the values it stored.
KeepStoredQuote == [f \in {} |-> Num(0)]

ZeroQuote == QuoteFields(0, 0, 0, 0)

\* fetch_live_quote(symbol, live_data); mapOk: its read of the master list succeeds.
FetchLiveQuote(symbol, live, mapOk) ==
    LET inst == MappingInstrument(symbol)
        data == live.data[inst.v]
        ltp  == data.last_price
    IN  IF ~mapOk THEN Raised
        ELSE IF ~MappingHas(symbol) THEN Returned(ZeroQuote)
        ELSE IF inst.k = "num" /\ inst.v = 0 THEN Returned(ZeroQuote)
        ELSE IF inst.k # "num" THEN Raised
        ELSE IF ~live.none /\ inst.v \in DOMAIN live.data
        THEN Returned(QuoteFields(ltp,
                                  IF data.ohlc THEN data.high ELSE ltp,
                                  IF data.ohlc THEN data.low ELSE ltp,
                                  PctChange(ltp, IF data.ohlc THEN data.close ELSE ltp)))
        ELSE Returned(ZeroQuote)

\* float(x or 0): None, "" and 0 give 0, NaN stays NaN, other text raises.
FloatOrZero(x) ==
    CASE x.k = "num"  -> Returned(x)
      [] x.k = "nan"  -> Returned(NaN)
      [] x.k \in {"empty", "none"} -> Returned(Num(0))
      [] OTHER        -> Raised

\* Variant: >= in place of >.
GreaterOrEqual(a, b) == a.k = "num" /\ b.k = "num" /\ a.v >= b.v

\* a > b on floats: false when either is NaN.
Greater(a, b) == a.k = "num" /\ b.k = "num" /\ a.v > b.v

\* "YES" if float(row["LTP"] or 0) > float(row["Entry Price"] or 0) else "NO"
Breakout(ltp, entry) == IF Greater(ltp, entry) THEN "YES" ELSE "NO"

\* Variant: a BUY is set on a breakout and never cleared.
NewActionKeepsBuy(action, breakout) ==
    IF action # "AUTO_BUYED" /\ breakout = "YES" THEN "BUY" ELSE action

\* if row.get("Action") != "AUTO_BUYED": row["Action"] = "BUY" if breakout == "YES" else ""
NewAction(action, breakout) ==
    IF action # "AUTO_BUYED" THEN (IF breakout = "YES" THEN "BUY" ELSE "") ELSE action

\* Variant: the time is stamped only on a row that has no time yet.
NewTimeFirstDetection(time, action, breakout, now) ==
    IF breakout = "YES" /\ action # "AUTO_BUYED" /\ time \in {"", "nan"} THEN now ELSE time

\* if breakout == "YES" and row.get("Action") != "AUTO_BUYED": row["Time"] = now
NewTime(time, action, breakout, now) ==
    IF breakout = "YES" /\ action # "AUTO_BUYED" THEN now ELSE time

\* The body of the loop of update_quotes_and_breakouts for one row.
ReconcileRow(row, live, mapOk, now) ==
    LET quote    == FetchLiveQuote(row["Stock Name"], live, mapOk)
        row1     == Update(row, quote.value)
        ltp      == FloatOrZero(row1["LTP"])
        entry    == FloatOrZero(row1["Entry Price"])
        breakout == Breakout(ltp.value, entry.value)
        action   == NewAction(row1["Action"], breakout)
    IN  IF quote.raised THEN Raised
        ELSE IF ltp.raised \/ entry.raised THEN Raised
        ELSE Returned(Update(row1, ("Breakout" :> breakout) @@ ("Action" :> action)
                                   @@ ("Time" :> NewTime(row1["Time"], action, breakout, now))))

RECURSIVE ReconcileLoop(_, _, _, _, _)
ReconcileLoop(data, i, live, mapOk, now) ==
    IF i > Len(data) THEN Returned(data)
    ELSE LET r == ReconcileRow(data[i], live, mapOk, now)
         IN  IF r.raised THEN Raised
             ELSE ReconcileLoop([data EXCEPT ![i] = r.value], i + 1, live, mapOk, now)

\* update_quotes_and_breakouts(live_data): the rows returned and the document left.
UpdateQuotesAndBreakouts(live, wOk, mapOk, sOk, now) ==
    LET r == ReconcileLoop(LoadWatchlist(wOk), 1, live, mapOk, now)
    IN  IF ~mapOk \/ r.raised
        THEN [raised |-> TRUE, data |-> <<>>, doc |-> watchlistDoc]
        ELSE [raised |-> FALSE, data |-> r.value, doc |-> SaveWatchlist(r.value, sOk)]


\* The row add_stock builds; the leverage columns it copies from the mapping are
\* never read again and are left out.
NewRow(stock_name, entry_price) ==
    ("Stock Name" :> stock_name)
    @@ ("Instrument ID" :> IF MappingHas(stock_name) THEN MappingInstrument(stock_name)
                           ELSE EmptyString)
    @@ ("Entry Price" :> entry_price)
    @@ ("LTP" :> EmptyString) @@ ("High" :> EmptyString) @@ ("Low" :> EmptyString)
    @@ ("% Change" :> EmptyString)
    @@ ("Time" :> "") @@ ("Breakout" :> "") @@ ("Action" :> "")

\* add_stock(stock_name, entry_price): the document left.
AddStock(stock_name, entry_price, mapOk, wOk, sOk) ==
    IF ~mapOk THEN [raised |-> TRUE, doc |-> watchlistDoc]
    ELSE [raised |-> FALSE,
          doc |-> SaveWatchlist(Append(LoadWatchlist(wOk), NewRow(stock_name, entry_price)),
                                sOk)]

\* data.pop(index)
Pop(data, index) ==
    [i \in 1..(Len(data) - 1) |-> IF i < index THEN data[i] ELSE data[i + 1]]

\* delete_stock(index), with index counted from 1.
DeleteStock(index, wOk, sOk) ==
    LET data == LoadWatchlist(wOk)
    IN  IF 1 <= index /\ index <= Len(data) THEN SaveWatchlist(Pop(data, index), sOk)
        ELSE watchlistDoc

\* update_stock(index, field, value), with index counted from 1.
UpdateStock(index, field, value, wOk, sOk) ==
    LET data == LoadWatchlist(wOk)
    IN  IF 1 <= index /\ index <= Len(data) /\ field \in DOMAIN data[index]
        THEN SaveWatchlist([data EXCEPT ![index] = Update(@, field :> value)], sOk)
        ELSE watchlistDoc

\* The first row of the given name, or 0.
FirstRowNamed(data, symbol) ==
    LET hits == { i \in 1..Len(data) : data[i]["Stock Name"] = symbol }
    IN  IF hits = {} THEN 0 ELSE CHOOSE i \in hits : \A j \in hits : i <= j

\* mark_auto_buy(symbol): the first row of that name is marked; the list is saved
\* whether or not a row was found.
MarkAutoBuy(symbol, wOk, sOk) ==
    LET data == LoadWatchlist(wOk)
        i    == FirstRowNamed(data, symbol)
    IN  SaveWatchlist(IF i = 0 THEN data
                      ELSE [data EXCEPT ![i] = Update(@, "Action" :> "AUTO_BUYED")], sOk)

StockNames == {"INFY", "WIPRO"}
EntryPrices == {Num(100), NonNumeric}
Times == {"09:15:00", "09:16:00"}
MaxWatch == 2


WatchFrame ==
    UNCHANGED <<s3_client, dhan, primaryTable, masterTable, _mapping_cache, _leverage_cache,
                _mtf_leverage_cache, _security_id_cache, firstResolved, uploads, sizing,
                resolve, order, wl_dhan, fetch, inflight, reload,
                tv_dhan, _live_data_cache, _last_live_fetch_time, _df_map, clock, bulk>>

Add ==
    \E stock_name \in StockNames, entry_price \in EntryPrices, mapOk, wOk, sOk \in BOOLEAN :
        LET r == AddStock(stock_name, entry_price, mapOk, wOk, sOk)
        IN  /\ Idle
            /\ Len(watchlistDoc) < MaxWatch
            /\ watchlistDoc' = r.doc
            /\ wlop' = [NoWlop EXCEPT !.op = "add_stock", !.raised = r.raised,
                                      !.wOk = wOk, !.mapOk = mapOk, !.sOk = sOk]
            /\ WatchFrame

Delete ==
    \E index \in 1..MaxWatch, wOk, sOk \in BOOLEAN :
        /\ Idle
        /\ watchlistDoc' = DeleteStock(index, wOk, sOk)
        /\ wlop' = [NoWlop EXCEPT !.op = "delete_stock", !.wOk = wOk, !.sOk = sOk]
        /\ WatchFrame

Edit ==
    \E index \in 1..MaxWatch, wOk, sOk \in BOOLEAN :
        \E fv \in {<<"Entry Price", EmptyString>>, <<"Action", "">>} :
            /\ Idle
            /\ watchlistDoc' = UpdateStock(index, fv[1], fv[2], wOk, sOk)
            /\ wlop' = [NoWlop EXCEPT !.op = "update_stock", !.wOk = wOk, !.sOk = sOk]
            /\ WatchFrame

Mark ==
    \E symbol \in StockNames, wOk, sOk \in BOOLEAN :
        /\ Idle
        /\ watchlistDoc' = MarkAutoBuy(symbol, wOk, sOk)
        /\ wlop' = [NoWlop EXCEPT !.op = "mark_auto_buy", !.wOk = wOk, !.sOk = sOk]
        /\ WatchFrame

Reconcile ==
    \E live \in LiveInputs, wOk, mapOk, sOk \in BOOLEAN, now \in Times :
        LET r == UpdateQuotesAndBreakouts(live, wOk, mapOk, sOk, now)
        IN  /\ Idle
            /\ watchlistDoc' = r.doc
            /\ wlop' = [op |-> "update_quotes_and_breakouts", raised |-> r.raised,
                        data |-> r.data, now |-> now, live |-> live, wOk |-> wOk,
                        mapOk |-> mapOk, sOk |-> sOk]
            /\ WatchFrame

-----------------------------------------------------------------------------
(* Overlapping watchlist requests (watchlist_helpers.py) *)

\* The server handles requests concurrently; no operation takes a lock or checks a
\* version.  One request is followed between its load_watchlist() and its
\* save_watchlist() while the operations of other requests complete.  Reads and
\* writes succeed here.

MaxOthers == 2

\* Variant: the rows are read again when the operation is about to save.
InflightSourceCurrent(t) == watchlistDoc

\* data = load_watchlist(): the rows the operation works on are those it loaded.
InflightSource(t) == t.data

\* The calls a request in flight can be making.
InflightCalls ==
    { [NoInflight EXCEPT !.op = "add_stock", !.symbol = s, !.entry_price = Num(100)] :
        s \in StockNames }
    \cup { [NoInflight EXCEPT !.op = "delete_stock", !.index = i] : i \in 1..MaxWatch }
    \cup { [NoInflight EXCEPT !.op = "update_stock", !.index = i] : i \in 1..MaxWatch }
    \cup { [NoInflight EXCEPT !.op = "mark_auto_buy", !.symbol = s] : s \in StockNames }
    \cup { [NoInflight EXCEPT !.op = "update_quotes_and_breakouts", !.live = l, !.now = n] :
             l \in LiveInputs, n \in Times }

\* What the operation in flight does with its rows: whether it saves, and which rows.
\* update_stock here clears the Action field.
InflightResult(t) ==
    LET data == InflightSource(t)
        i    == FirstRowNamed(data, t.symbol)
        r    == ReconcileLoop(data, 1, t.live, TRUE, t.now)
    IN  CASE t.op = "add_stock" ->
               [save |-> TRUE, rows |-> Append(data, NewRow(t.symbol, t.entry_price))]
          [] t.op = "delete_stock" ->
               IF 1 <= t.index /\ t.index <= Len(data)
               THEN [save |-> TRUE, rows |-> Pop(data, t.index)]
               ELSE [save |-> FALSE, rows |-> data]
          [] t.op = "update_stock" ->
               IF 1 <= t.index /\ t.index <= Len(data)
               THEN [save |-> TRUE,
                     rows |-> [data EXCEPT ![t.index] = Update(@, "Action" :> "")]]
               ELSE [save |-> FALSE, rows |-> data]
          [] t.op = "mark_auto_buy" ->
               [save |-> TRUE,
                rows |-> IF i = 0 THEN data
                         ELSE [data EXCEPT ![i] = Update(@, "Action" :> "AUTO_BUYED")]]
          [] OTHER ->
               IF r.raised THEN [save |-> FALSE, rows |-> data]
               ELSE [save |-> TRUE, rows |-> r.value]

RaceFrame ==
    UNCHANGED <<s3_client, dhan, primaryTable, masterTable, _mapping_cache, _leverage_cache,
                _mtf_leverage_cache, _security_id_cache, firstResolved, uploads, sizing,
                resolve, order, wl_dhan, wlop, fetch, reload,
                tv_dhan, _live_data_cache, _last_live_fetch_time, _df_map, clock, bulk>>

\* A request loads the watchlist document.
RaceLoad ==
    \E call \in InflightCalls :
        /\ inflight.phase = "none"
        /\ inflight' = [call EXCEPT !.phase = "loaded", !.data = LoadWatchlist(TRUE),
                                    !.others = inflight.others]
        /\ UNCHANGED watchlistDoc
        /\ RaceFrame

\* The operation of another request may complete: the followed request has not
\* saved yet.
OtherMay == inflight.phase # "saved" /\ inflight.others < MaxOthers

OtherDone == [inflight EXCEPT !.others = @ + 1]

RaceAdd ==
    \E s \in StockNames :
        /\ OtherMay
        /\ Len(watchlistDoc) < MaxWatch
        /\ watchlistDoc' = AddStock(s, Num(100), TRUE, TRUE, TRUE).doc
        /\ inflight' = OtherDone
        /\ RaceFrame

RaceDelete ==
    \E i \in 1..MaxWatch :
        /\ OtherMay
        /\ watchlistDoc' = DeleteStock(i, TRUE, TRUE)
        /\ inflight' = OtherDone
        /\ RaceFrame

RaceEdit ==
    \E i \in 1..MaxWatch :
        /\ OtherMay
        /\ watchlistDoc' = UpdateStock(i, "Action", "", TRUE, TRUE)
        /\ inflight' = OtherDone
        /\ RaceFrame

RaceMark ==
    \E s \in StockNames :
        /\ OtherMay
        /\ watchlistDoc' = MarkAutoBuy(s, TRUE, TRUE)
        /\ inflight' = OtherDone
        /\ RaceFrame

RaceReconcile ==
    \E l \in LiveInputs, n \in Times :
        /\ OtherMay
        /\ watchlistDoc' = UpdateQuotesAndBreakouts(l, TRUE, TRUE, TRUE, n).doc
        /\ inflight' = OtherDone
        /\ RaceFrame

\* The request in flight modifies the rows it loaded and saves them.
RaceSave ==
    LET r == InflightResult(inflight)
    IN  /\ inflight.phase = "loaded"
        /\ watchlistDoc' = IF r.save THEN SaveWatchlist(r.rows, TRUE) ELSE watchlistDoc
        /\ inflight' = [inflight EXCEPT !.phase = "saved", !.before = watchlistDoc,
                                        !.wrote = r.save]
        /\ RaceFrame

-----------------------------------------------------------------------------
(* Bulk quote cache (tradingview_helper.py) *)

LIVE_DATA_CACHE_DURATION == 600

\* What the provider does with one batch of a bulk pass: its call raises, its answer
\* is no dict with a "data" key, or it answers quotes at some price for all or none
\* of the ids asked.
BulkOutcomes == [kind : {"raise", "invalid", "all", "none"}, price : {101, 102}]

\* One batch of the loop: live_data.update(batch_data) on a valid answer; an invalid
\* answer or an exception is logged and the batch skipped.
BulkBatch(live_data, batch, outcome) ==
    LET got == { batch[i] : i \in 1..Len(batch) }
    IN  IF outcome.kind = "all"
        THEN [id \in (DOMAIN live_data) \cup got |->
                 IF id \in got THEN [last_price |-> outcome.price] ELSE live_data[id]]
        ELSE live_data

RECURSIVE BulkLoop(_, _, _, _)
BulkLoop(live_data, batches, outcomes, b) ==
    IF b > Len(batches) THEN live_data
    ELSE BulkLoop(BulkBatch(live_data, batches[b], outcomes[b]), batches, outcomes, b + 1)

\* load_mapping_from_s3(): the instrument ids of uploads/mapping.csv, rows without
\* an id dropped; an empty list when the read fails.  tOk: the read succeeds.
LoadDfMap(tOk) ==
    LET good == SelectSeq(primaryTable, LAMBDA row : row.instOk)
    IN  [loaded |-> TRUE, ids |-> IF tOk THEN [i \in 1..Len(good) |-> good[i].inst] ELSE <<>>]

\* get_df_map(): loaded on first use, kept from then on.
GetDfMap(tOk) == IF _df_map.loaded THEN _df_map ELSE LoadDfMap(tOk)

\* Variant: the stored result is reused while it is young, empty or not.
CacheUsableWhateverStored(last_fetch_time) ==
    clock - last_fetch_time < LIVE_DATA_CACHE_DURATION

\* current_time - _last_live_fetch_time < LIVE_DATA_CACHE_DURATION and _live_data_cache
CacheUsable(last_fetch_time) ==
    clock - last_fetch_time < LIVE_DATA_CACHE_DURATION /\ _live_data_cache # EmptyMap

\* fetch_all_live_data_bulk() entered with the given _last_live_fetch_time: the value
\* returned, the globals it leaves and the provider requests it issued.
FetchAllLiveDataBulk(last_fetch_time, tOk, outcomes) ==
    LET df      == GetDfMap(tOk)
        batches == BatchList(df.ids, BATCH_SIZE)
        live    == BulkLoop(EmptyMap, batches, outcomes, 1)
    IN  IF CacheUsable(last_fetch_time)
        THEN [result |-> _live_data_cache, cache |-> _live_data_cache,
              time |-> last_fetch_time, df |-> _df_map, requests |-> <<>>]
        ELSE IF ~tv_dhan
        THEN [result |-> EmptyMap, cache |-> _live_data_cache,
              time |-> last_fetch_time, df |-> _df_map, requests |-> <<>>]
        ELSE [result |-> live, cache |-> live, time |-> clock, df |-> df,
              requests |-> batches]

\* Variant: the validity clock is left as it is.
ResetClockSkipped == _last_live_fetch_time

\* _last_live_fetch_time = 0
ResetClock == 0

\* refresh_live_data(): the clock is reset, then the bulk fetch is called.
RefreshLiveData(tOk, outcomes) == FetchAllLiveDataBulk(ResetClock, tOk, outcomes)

\* The outcomes of the batches a pass would issue.
BulkOutcomeSeqs(tOk) ==
    [1..BatchCount(GetDfMap(tOk).ids, BATCH_SIZE) -> BulkOutcomes]

BulkFrame ==
    UNCHANGED <<s3_client, dhan, primaryTable, masterTable, _mapping_cache, _leverage_cache,
                _mtf_leverage_cache, _security_id_cache, firstResolved, uploads, sizing,
                resolve, order, watchlistDoc, wl_dhan, wlop, fetch, inflight, reload,
                tv_dhan, clock>>

BulkApply(op, r, outcomes) ==
    /\ _live_data_cache' = r.cache
    /\ _last_live_fetch_time' = r.time
    /\ _df_map' = r.df
    /\ bulk' = [op |-> op, at |-> clock, priorCache |-> _live_data_cache,
                priorTime |-> _last_live_fetch_time, result |-> r.result,
                requests |-> r.requests, outcomes |-> outcomes]

\* A caller asks for the live quotes of all instruments.
FetchBulk ==
    \E tOk \in BOOLEAN :
        \E outcomes \in BulkOutcomeSeqs(tOk) :
            /\ Idle
            /\ BulkApply("fetch_all_live_data_bulk",
                         FetchAllLiveDataBulk(_last_live_fetch_time, tOk, outcomes), outcomes)
            /\ BulkFrame

\* The refresh route forces a new pass.
Refresh ==
    \E tOk \in BOOLEAN :
        \E outcomes \in BulkOutcomeSeqs(tOk) :
            /\ Idle
            /\ BulkApply("refresh_live_data", RefreshLiveData(tOk, outcomes), outcomes)
            /\ BulkFrame

\* Seconds after the start at which calls are made.
ClockOffsets == {1, 599, 600, 601, 1200}

\* Time passes between two calls.
Tick ==
    /\ Idle
    /\ \E d \in ClockOffsets : /\ ClockStart + d > clock
                               /\ clock' = ClockStart + d
    /\ UNCHANGED <<s3_client, dhan, primaryTable, masterTable, _mapping_cache,
                   _leverage_cache, _mtf_leverage_cache, _security_id_cache, firstResolved,
                   uploads, sizing, resolve, order, watchlistDoc, wl_dhan, wlop, fetch,
                   inflight, reload, tv_dhan, _live_data_cache, _last_live_fetch_time,
                   _df_map, bulk>>

-----------------------------------------------------------------------------
(* Specifications *)

\* The state after the modules are loaded with empty caches and no call made yet.
Fresh ==
    /\ _mapping_cache = EmptyMap
    /\ _leverage_cache = EmptyMap
    /\ _mtf_leverage_cache = EmptyMap
    /\ _security_id_cache = EmptyMap
    /\ firstResolved = EmptyMap
    /\ uploads = 0
    /\ sizing = NoSizing
    /\ resolve = NoResolve
    /\ order = NoOrder
    /\ wlop = NoWlop
    /\ fetch = NoFetch
    /\ inflight = NoInflight
    /\ reload = NoReload
    /\ _live_data_cache = EmptyMap
    /\ _last_live_fetch_time = 0
    /\ _df_map = NoDfMap
    /\ clock = ClockStart
    /\ bulk = NoBulk

\* Tables the sizing, order and watchlist specifications run against.
SamplePrimary == << Row("INFY", 1, TRUE, 5, TRUE, 3, TRUE) >>
SampleMaster  == << Row("INFY", 2, TRUE, 2, TRUE, 2, TRUE), Row("tcs ", 4, TRUE, 1, TRUE, 1, TRUE) >>

\* Resolver: any tables, uploads, forced reloads and resolutions.
InitResolver ==
    /\ Fresh
    /\ s3_client \in BOOLEAN
    /\ dhan = TRUE
    /\ wl_dhan = TRUE
    /\ tv_dhan = TRUE
    /\ primaryTable \in PrimaryTables
    /\ masterTable \in MasterTables
    /\ watchlistDoc = <<>>

NextResolver == Resolve \/ ForcedReload \/ UploadTables \/ Forget

SpecResolver == InitResolver /\ [][NextResolver]_vars

\* Sizer: the caches are built from the sample tables, then positions are sized.
InitSizer ==
    /\ Fresh
    /\ s3_client = TRUE
    /\ dhan \in BOOLEAN
    /\ wl_dhan = TRUE
    /\ tv_dhan = TRUE
    /\ primaryTable = SamplePrimary
    /\ masterTable = SampleMaster
    /\ watchlistDoc = <<>>

NextSizer == ForcedReload \/ Size \/ Forget

SpecSizer == InitSizer /\ [][NextSizer]_vars

\* Orders: payloads are built and orders placed against the sample tables.
InitOrder ==
    /\ Fresh
    /\ s3_client = TRUE
    /\ dhan \in BOOLEAN
    /\ wl_dhan = TRUE
    /\ tv_dhan = TRUE
    /\ primaryTable = SamplePrimary
    /\ masterTable = SampleMaster
    /\ watchlistDoc = <<>>

NextOrder == BuildPayload \/ Place \/ Forget

SpecOrder == InitOrder /\ [][NextOrder]_vars

\* Watchlist: the five operations, one at a time.
InitWatch ==
    /\ Fresh
    /\ s3_client = TRUE
    /\ dhan = TRUE
    /\ wl_dhan = TRUE
    /\ tv_dhan = TRUE
    /\ primaryTable = SamplePrimary
    /\ masterTable = SampleMaster
    /\ watchlistDoc = <<>>

NextWatch == Add \/ Delete \/ Edit \/ Mark \/ Reconcile \/ Forget

SpecWatch == InitWatch /\ [][NextWatch]_vars

\* Fetcher: quotes are fetched for id lists of several lengths.
InitFetch ==
    /\ Fresh
    /\ s3_client = TRUE
    /\ dhan = TRUE
    /\ wl_dhan \in BOOLEAN
    /\ tv_dhan = TRUE
    /\ primaryTable = SamplePrimary
    /\ masterTable = SampleMaster
    /\ watchlistDoc = <<>>

NextFetch == Fetch \/ Forget

SpecFetch == InitFetch /\ [][NextFetch]_vars

\* Master lists a later upload leaves: INFY is no longer listed, or INFY is listed
\* under another instrument id.
MasterUploads ==
    { << Row("tcs ", 4, TRUE, 1, TRUE, 1, TRUE) >>,
      << Row("INFY", 3, TRUE, 2, TRUE, 2, TRUE) >> }

\* The uploader replaces the master list in the bucket.
UploadMaster ==
    /\ Idle
    /\ uploads < MaxUploads
    /\ uploads' = uploads + 1
    /\ masterTable' \in MasterUploads \ {masterTable}
    /\ UNCHANGED <<s3_client, dhan, primaryTable, _mapping_cache, _leverage_cache,
                   _mtf_leverage_cache, _security_id_cache, firstResolved, sizing,
                   resolve, order, watchlistDoc, wl_dhan, wlop, fetch, inflight, reload,
                   tv_dhan, _live_data_cache, _last_live_fetch_time, _df_map, clock, bulk>>

\* Quotes: rows are added and reconciled while the master list is replaced.
InitQuote == InitWatch

NextQuote == Add \/ Reconcile \/ UploadMaster \/ Forget

SpecQuote == InitQuote /\ [][NextQuote]_vars

\* Bulk quote cache: fetches and forced refreshes as time passes.
InitBulk ==
    /\ Fresh
    /\ s3_client = TRUE
    /\ dhan = TRUE
    /\ wl_dhan = TRUE
    /\ tv_dhan \in BOOLEAN
    /\ primaryTable = SamplePrimary
    /\ masterTable = SampleMaster
    /\ watchlistDoc = <<>>

NextBulk == FetchBulk \/ Refresh \/ Tick \/ Forget

SpecBulk == InitBulk /\ [][NextBulk]_vars

\* Overlapping requests: one operation in flight, others completing around it.
InitRace == InitWatch

NextRace ==
    RaceLoad \/ RaceAdd \/ RaceDelete \/ RaceEdit \/ RaceMark \/ RaceReconcile \/ RaceSave

SpecRace == InitRace /\ [][NextRace]_vars

Next ==
    \/ NextResolver \/ NextSizer \/ NextOrder \/ NextWatch \/ NextFetch
    \/ NextQuote \/ NextBulk \/ NextRace

Spec == InitResolver /\ [][Next]_vars

-----------------------------------------------------------------------------
(* Position sizer: C1, C2, C3 *)

\* The case the two ceilings are about: numeric inputs, price > 0, entry # stop.
SizedValid ==
    /\ sizing.called
    /\ Converts(sizing.price) /\ Converts(sizing.entry) /\ Converts(sizing.sl_price)
    /\ sizing.price.v > 0
    /\ sizing.entry.v # sizing.sl_price.v

RiskDistance == Abs(sizing.entry.v - sizing.sl_price.v)

\* The risk budget as C1 states it.
RiskBudget == IF Upper(sizing.productType) = "INTRADAY" THEN 1000 ELSE 1500

\* C1: for price > 0 and entry # stop the call returns, and the returned quantity times
\* the distance |entry - stop| is at most 1000 for INTRADAY and at most 1500 otherwise.
C1_RiskCeiling ==
    SizedValid =>
        /\ ~sizing.result.raised
        /\ sizing.result.quantity * RiskDistance <= RiskBudget

\* A call in which the risk budget binds: one more unit would exceed it, and the
\* funds would have allowed more.
C1_Witness ==
    /\ SizedValid
    /\ sizing.result.quantity > 0
    /\ (sizing.result.quantity + 1) * RiskDistance > RiskBudget
    /\ (sizing.result.quantity + 1) * sizing.price.v
           <= sizing.result.fund * sizing.result.leverage

\* C2 as stated: for price > 0 and entry # stop, quantity * price is at most the
\* returned available fund times the returned leverage.
C2_FundCeilingAsStated ==
    SizedValid =>
        sizing.result.quantity * sizing.price.v
            <= sizing.result.fund * sizing.result.leverage

\* C3: with numeric inputs and entry equal to the stop price the call returns
\* quantity 0, expected loss 0 and exposure 0, and does not raise, whatever the price.
C3_ZeroRisk ==
    ( /\ sizing.called
      /\ Converts(sizing.price) /\ Converts(sizing.entry) /\ Converts(sizing.sl_price)
      /\ sizing.entry.v = sizing.sl_price.v )
    => /\ ~sizing.result.raised
       /\ sizing.result.quantity = 0
       /\ sizing.result.expected_loss = 0
       /\ sizing.result.exposure = 0

\* A zero-risk call at price 0 with money in the account.
C3_Witness ==
    /\ sizing.called
    /\ Converts(sizing.price) /\ Converts(sizing.entry) /\ Converts(sizing.sl_price)
    /\ sizing.entry.v = sizing.sl_price.v
    /\ sizing.price.v = 0
    /\ sizing.result.fund > 0
    /\ sizing.result.quantity = 0

-----------------------------------------------------------------------------
(* Watchlist reconciliation: C4, C5 *)

\* C4: once a stored row's Action is AUTO_BUYED, a call of
\* update_quotes_and_breakouts leaves that row stored with Action AUTO_BUYED.
C4_StickyAutoBuy ==
    [][ wlop'.op = "update_quotes_and_breakouts" =>
            \A i \in 1..Len(watchlistDoc) :
                watchlistDoc[i]["Action"] = "AUTO_BUYED" =>
                    /\ i <= Len(watchlistDoc')
                    /\ watchlistDoc'[i]["Action"] = "AUTO_BUYED" ]_vars

\* The rows a reconciliation pass has produced.
Reconciled == wlop.op = "update_quotes_and_breakouts" /\ ~wlop.raised

\* C5: after update_quotes_and_breakouts every row has Breakout = YES exactly when
\* its LTP is strictly greater than its entry price, and NO otherwise; LTP equal to
\* the entry price gives NO.
C5_BreakoutBoundary ==
    Reconciled =>
        \A i \in 1..Len(wlop.data) :
            LET row == wlop.data[i]
                above == /\ row["LTP"].k = "num"
                         /\ row["Entry Price"].k = "num"
                         /\ row["LTP"].v > row["Entry Price"].v
            IN  /\ row["Breakout"] \in {"YES", "NO"}
                /\ row["Breakout"] = "YES" <=> above

\* A pass that left a row with LTP equal to its entry price and Breakout NO, next to
\* a row with LTP above its entry price and Breakout YES.
C5_Witness ==
    /\ Reconciled
    /\ \E i \in 1..Len(wlop.data) :
           /\ wlop.data[i]["LTP"] = Num(100)
           /\ wlop.data[i]["Entry Price"] = Num(100)
           /\ wlop.data[i]["Breakout"] = "NO"
    /\ \E i \in 1..Len(watchlistDoc) :
           /\ watchlistDoc[i]["LTP"].k = "num"
           /\ watchlistDoc[i]["Entry Price"].k = "num"
           /\ watchlistDoc[i]["LTP"].v > watchlistDoc[i]["Entry Price"].v
           /\ watchlistDoc[i]["Breakout"] = "YES"

-----------------------------------------------------------------------------
(* Instrument resolver: C6, C7 *)

\* C6: a call of get_cached_security_id for a symbol that an earlier call resolved
\* (same symbol after trim and upper-casing) returns the same instrument id and
\* reads neither backing table.
C6_ResolverIdempotence ==
    (resolve.called /\ resolve.hadPrior) =>
        /\ resolve.ok
        /\ resolve.id = resolve.priorId
        /\ resolve.reads = 0

\* A repeated call, spelled differently from the upper-cased symbol, made when the
\* mapping holds another id for the symbol than the one resolved first.
C6_Witness ==
    /\ resolve.called /\ resolve.hadPrior
    /\ resolve.symbol # resolve.symbol_u
    /\ resolve.symbol_u \in DOMAIN _mapping_cache
    /\ _mapping_cache[resolve.symbol_u] # resolve.priorId
    /\ resolve.id = resolve.priorId

\* C7: for a symbol present in both backing tables with different instrument ids,
\* get_cached_security_id returns the primary table's instrument id.
C7_MappingPrecedence ==
    ( /\ resolve.called /\ resolve.ok /\ resolve.id # 0
      /\ resolve.primaryIds # {} /\ resolve.masterIds # {}
      /\ resolve.primaryIds \cap resolve.masterIds = {} )
    => resolve.id \in resolve.primaryIds

-----------------------------------------------------------------------------
(* Live quote fetching: C8 *)

\* The batches whose provider call failed, and those whose call succeeded.
FailedBatches == { b \in 1..Len(fetch.outcomes) : fetch.outcomes[b] = "raise" }

SucceededBatches == (1..Len(fetch.outcomes)) \ FailedBatches

\* The ids asked in batch b.
AskedIn(b) == { fetch.requests[b][i] : i \in 1..Len(fetch.requests[b]) }

\* The case C8 is about: a fetch in which the provider call of a batch failed.
PartialFailure == fetch.called /\ wl_dhan /\ FailedBatches # {}

\* The fetch raises nothing, asks every batch and returns the quotes of the batches
\* whose call succeeded.
PartialResult ==
    /\ ~fetch.raised
    /\ Len(fetch.requests) = Len(fetch.outcomes)
    /\ fetch.requests = BatchList(fetch.instrument_ids, 1000)
    /\ DOMAIN fetch.live_data =
           UNION { Answered(fetch.requests[b], fetch.outcomes[b]) : b \in SucceededBatches }
    /\ \A id \in DOMAIN fetch.live_data :
           \E b \in SucceededBatches :
               /\ id \in Answered(fetch.requests[b], fetch.outcomes[b])
               /\ fetch.live_data[id] = ProviderQuote(id, b)

-----------------------------------------------------------------------------
(* Orders: C9, C10 *)

\* A payload has been built, by create_order_payload alone or inside place_order.
Built == order.op \in {"create_order_payload", "place_order"} /\ ~order.built.raised

\* C9: the built payload carries the caller's limit price when the order type is
\* LIMIT or SL and price 0 for every other order type; it has a trigger_price key
\* exactly when the order type is SL, and the key then holds the supplied trigger price.
C9_PayloadShape ==
    Built =>
        LET payload    == order.built.value
            order_type == Upper(order.form_data.order_type)
            limit      == IF order.form_data.limit_price.k = "num"
                          THEN order.form_data.limit_price.v ELSE 0
            trigger    == IF order.form_data.trigger_price.k = "num"
                          THEN order.form_data.trigger_price.v ELSE 0
        IN  /\ order_type \in {"LIMIT", "SL"} => payload.price = limit
            /\ order_type \notin {"LIMIT", "SL"} => payload.price = 0
            /\ "trigger_price" \in DOMAIN payload <=> order_type = "SL"
            /\ "trigger_price" \in DOMAIN payload <=> payload.order_type = "dhan.SL"
            /\ order_type = "SL" => payload.trigger_price = trigger

\* A market order built from a form that supplies a limit and a trigger price, and
\* whose payload has price 0 and no trigger_price key.
C9_Witness ==
    /\ Built
    /\ order.form_data.order_type = "MARKET"
    /\ order.form_data.limit_price = Num(1500)
    /\ order.form_data.trigger_price = Num(1490)
    /\ order.built.value.price = 0
    /\ "trigger_price" \notin DOMAIN order.built.value

\* C10: place_order never raises; it returns {success: true, order_id} exactly when
\* the provider was called and answered status success, and {success: false, message}
\* in every other case.
C10_NeverRaises ==
    order.op = "place_order" =>
        /\ ~order.outcome.raised
        /\ LET result  == order.outcome.value
               success == order.response.kind = "dict" /\ order.response.status = "success"
           IN  /\ result.success <=> success
               /\ success => /\ DOMAIN result = {"success", "order_id"}
                             /\ result.order_id = order.response.orderId
               /\ ~success => DOMAIN result = {"success", "message"}

\* A submission with no broker client, and so no provider call, that came back as a
\* failure result.
C10_Witness ==
    /\ order.op = "place_order"
    /\ ~dhan
    /\ order.resolved
    /\ order.placeCalls = 0
    /\ ~order.outcome.raised
    /\ ~order.outcome.value.success

-----------------------------------------------------------------------------
(* Resolution order: C11 *)

\* C11: a call of get_cached_security_id answers from the resolution cache if the
\* symbol is there, else from the mapping, else from the mapping after a forced
\* rebuild, else from the direct lookup in the master list; it fails only when all
\* four give no id, and a failed call leaves the resolution cache as it was.
C11_ResolutionOrder ==
    [][ (resolve'.called /\ ~resolve.called) =>
          LET u        == resolve'.symbol_u
              inCache  == u \in DOMAIN _security_id_cache
              inMap    == u \in DOMAIN _mapping_cache
              inNewMap == u \in DOMAIN _mapping_cache'
              rows     == SelectSeq(masterTable, LAMBDA row : Upper(row.name) = u)
          IN  /\ inCache =>
                    /\ resolve'.ok /\ resolve'.id = _security_id_cache[u]
                    /\ resolve'.reads = 0
                    /\ _mapping_cache' = _mapping_cache
              /\ (~inCache /\ inMap) =>
                    /\ resolve'.ok /\ resolve'.id = _mapping_cache[u]
                    /\ resolve'.reads = 0
                    /\ _mapping_cache' = _mapping_cache
              /\ (~inCache /\ ~inMap /\ s3_client) => resolve'.reads >= 2
              /\ (~inCache /\ ~inMap /\ inNewMap) =>
                    /\ resolve'.ok /\ resolve'.id = _mapping_cache'[u]
                    /\ resolve'.reads = IF s3_client THEN 2 ELSE 0
              /\ (~inCache /\ ~inMap /\ ~inNewMap /\ resolve'.ok) =>
                    /\ rows # <<>> /\ rows[1].instOk /\ resolve'.id = rows[1].inst
                    /\ resolve'.reads = 3
              /\ ~resolve'.ok =>
                    /\ ~inCache /\ ~inMap /\ ~inNewMap
                    /\ \/ ~s3_client
                       \/ resolve'.reads = 3 /\ resolve'.path = "readfailed"
                       \/ resolve'.reads = 3 /\ rows = <<>>
                       \/ resolve'.reads = 3 /\ rows # <<>> /\ ~rows[1].instOk
                    /\ _security_id_cache' = _security_id_cache
              /\ resolve'.ok =>
                    /\ u \in DOMAIN _security_id_cache'
                    /\ _security_id_cache'[u] = resolve'.id ]_vars

\* A failed call: cache and mapping missed, both tables were re-read, the master
\* list was read a third time with no row for the symbol, and the symbol is not in
\* the resolution cache, which holds another symbol.
C11_Witness ==
    /\ resolve.called /\ ~resolve.ok
    /\ resolve.path = "notfound"
    /\ resolve.reads = 3
    /\ resolve.symbol_u \notin DOMAIN _security_id_cache
    /\ _security_id_cache # EmptyMap

-----------------------------------------------------------------------------
(* Overlapping watchlist requests: C12 *)

\* The row of the loaded document that row i of the saved document comes from.
SourceRow(i) ==
    IF inflight.op = "delete_stock" /\ i >= inflight.index THEN i + 1 ELSE i

\* C12: an operation saves the whole document it loaded, modified by itself alone.
\* After its save the stored document has the rows of the loaded one (one more after
\* add_stock, one fewer after delete_stock), under the same names, and a row is
\* AUTO_BUYED only if it was so when loaded or the operation itself marked it:
\* whatever other operations stored between the load and the save is lost.
C12_LostUpdate ==
    (inflight.phase = "saved" /\ inflight.wrote) =>
        LET snap == inflight.data
            kept == IF inflight.op = "add_stock" THEN Len(watchlistDoc) - 1
                    ELSE Len(watchlistDoc)
        IN  /\ Len(watchlistDoc) =
                   Len(snap) + (CASE inflight.op = "add_stock" -> 1
                                  [] inflight.op = "delete_stock" -> -1
                                  [] OTHER -> 0)
            /\ \A i \in 1..kept :
                   /\ watchlistDoc[i]["Stock Name"] = snap[SourceRow(i)]["Stock Name"]
                   /\ watchlistDoc[i]["Action"] = "AUTO_BUYED" =>
                          \/ snap[SourceRow(i)]["Action"] = "AUTO_BUYED"
                          \/ /\ inflight.op = "mark_auto_buy"
                             /\ watchlistDoc[i]["Stock Name"] = inflight.symbol

\* A reconciliation saved after a row was marked AUTO_BUYED behind its back: the
\* row was AUTO_BUYED in the document just before the save and is not after it.
C12_Witness ==
    /\ inflight.phase = "saved" /\ inflight.wrote
    /\ inflight.op = "update_quotes_and_breakouts"
    /\ \E i \in 1..Len(inflight.before) :
           /\ inflight.before[i]["Action"] = "AUTO_BUYED"
           /\ i <= Len(watchlistDoc)
           /\ watchlistDoc[i]["Stock Name"] = inflight.before[i]["Stock Name"]
           /\ watchlistDoc[i]["Action"] # "AUTO_BUYED"

-----------------------------------------------------------------------------
(* Position sizer: C13 .. C17 *)

\* All three inputs of the last sizing call convert to numbers.
SizedNumeric ==
    /\ sizing.called
    /\ Converts(sizing.price) /\ Converts(sizing.entry) /\ Converts(sizing.sl_price)

\* C13: for numeric price, entry and stop (negative and zero prices included) and
\* every account balance, the returned quantity is at least 0.
C13_NonNegativeQuantity ==
    (SizedNumeric /\ ~sizing.result.raised) => sizing.result.quantity >= 0

\* The product type the sizer works with: upper-cased, a missing one read as INTRADAY.
StatedProductType ==
    IF sizing.productType = "" THEN "INTRADAY" ELSE Upper(sizing.productType)

\* The leverage C14 states: the cached intraday leverage for INTRADAY, the cached
\* margin leverage for MARGIN, 1 for another product type or an uncached instrument.
StatedLeverage ==
    CASE StatedProductType = "INTRADAY" ->
             IF sizing.sec_id \in DOMAIN _leverage_cache
             THEN _leverage_cache[sizing.sec_id] ELSE 1
      [] StatedProductType = "MARGIN" ->
             IF sizing.sec_id \in DOMAIN _mtf_leverage_cache
             THEN _mtf_leverage_cache[sizing.sec_id] ELSE 1
      [] OTHER -> 1

\* C14: for numeric inputs with entry # stop and price > 0 the call returns
\* quantity = min(floor(max_loss / |entry - stop|), floor(fund * leverage / price)),
\* expected_loss = quantity * |entry - stop| and exposure = quantity * price, with
\* max_loss 1000 for INTRADAY and 1500 otherwise and the leverage stated above.
\* (\div is the floor of the quotient for a positive divisor.)
C14_SizingFormula ==
    SizedValid =>
        LET max_loss == IF StatedProductType = "INTRADAY" THEN 1000 ELSE 1500
            by_risk  == max_loss \div RiskDistance
            by_fund  == (sizing.result.fund * StatedLeverage) \div sizing.price.v
            quantity == IF by_risk <= by_fund THEN by_risk ELSE by_fund
        IN  /\ ~sizing.result.raised
            /\ sizing.result.leverage = StatedLeverage
            /\ sizing.result.quantity = quantity
            /\ sizing.result.expected_loss = quantity * RiskDistance
            /\ sizing.result.exposure = quantity * sizing.price.v

\* The case C15 is about: a product type that is given and is neither INTRADAY
\* nor MARGIN.
SizedOtherProduct ==
    /\ SizedValid
    /\ sizing.productType # ""
    /\ Upper(sizing.productType) \notin {"INTRADAY", "MARGIN"}

\* C15 as stated: for a product type that is neither INTRADAY nor MARGIN the sizer
\* uses the instrument's intraday leverage and the max-loss threshold 1500.
C15_UnrecognizedAsStated ==
    SizedOtherProduct =>
        /\ sizing.result.leverage =
               (IF sizing.sec_id \in DOMAIN _leverage_cache
                THEN _leverage_cache[sizing.sec_id] ELSE 1)
        /\ sizing.result.quantity * RiskDistance <= 1500

\* C15 amended: for a product type that is neither INTRADAY nor MARGIN the sizer
\* uses leverage 1 for the fund constraint, whatever leverage is cached for the
\* instrument, and the max-loss threshold 1500.
C15_Unrecognized ==
    SizedOtherProduct =>
        LET by_risk == 1500 \div RiskDistance
            by_fund == TruncDiv(sizing.result.fund, sizing.price.v)
        IN  /\ ~sizing.result.raised
            /\ sizing.result.leverage = 1
            /\ sizing.result.quantity = (IF by_risk <= by_fund THEN by_risk ELSE by_fund)

\* A CNC call for an instrument with a cached intraday leverage above 1: the
\* returned leverage is 1 and the quantity risks more than 1000, up to 1500.
C15_Witness ==
    /\ SizedOtherProduct
    /\ sizing.sec_id \in DOMAIN _leverage_cache
    /\ _leverage_cache[sizing.sec_id] > 1
    /\ sizing.result.leverage = 1
    /\ sizing.result.quantity * RiskDistance > 1000
    /\ sizing.result.quantity * RiskDistance <= 1500

\* C16: for numeric price, entry and stop with entry # stop, price 0 included, the
\* call returns a result and raises no exception.
C16_NumericNeverFaults ==
    (SizedNumeric /\ sizing.entry.v # sizing.sl_price.v) => ~sizing.result.raised

\* The case C17 is about: an input that does not convert to a number.
SizedNonNumeric ==
    /\ sizing.called
    /\ ~(Converts(sizing.price) /\ Converts(sizing.entry) /\ Converts(sizing.sl_price))

\* C17 as stated: with an input that does not convert the call raises nothing, does
\* not ask for the balance and returns quantity, expected loss, exposure, leverage
\* and available fund all zero.
C17_NonNumericAsStated ==
    SizedNonNumeric =>
        /\ ~sizing.result.raised
        /\ sizing.result.balanceCalls = 0
        /\ sizing.result.quantity = 0
        /\ sizing.result.expected_loss = 0
        /\ sizing.result.exposure = 0
        /\ sizing.result.leverage = 0
        /\ sizing.result.fund = 0

\* C17 amended: with an input that does not convert the call raises nothing, does
\* not ask for the balance and returns quantity, expected loss, exposure and
\* available fund zero and leverage 1.
C17_NonNumeric ==
    SizedNonNumeric =>
        /\ ~sizing.result.raised
        /\ sizing.result.balanceCalls = 0
        /\ sizing.result.quantity = 0
        /\ sizing.result.expected_loss = 0
        /\ sizing.result.exposure = 0
        /\ sizing.result.leverage = 1
        /\ sizing.result.fund = 0

\* A call with a numeric price and stop and an entry that does not convert, for an
\* instrument with cached leverage, made with a broker client at hand.
C17_Witness ==
    /\ SizedNonNumeric
    /\ dhan
    /\ Converts(sizing.price) /\ Converts(sizing.sl_price) /\ ~Converts(sizing.entry)
    /\ sizing.sec_id \in DOMAIN _leverage_cache
    /\ sizing.result.balanceCalls = 0
    /\ sizing.result.leverage = 1

-----------------------------------------------------------------------------
(* Mapping caches across rebuilds: C18, C19, C20 *)

\* A step that is a forced reload whose two reads succeeded.
ReloadStep == ~reload.called /\ reload'.called /\ s3_client /\ reload'.pOk /\ reload'.mOk

\* The symbols and the rows the current tables hold (rows whose Instrument ID converts).
TableSymbols ==
    { Upper(Strip(primaryTable[i].name)) : i \in { j \in 1..Len(primaryTable) : primaryTable[j].instOk } }
    \cup { Upper(Strip(masterTable[i].name)) : i \in { j \in 1..Len(masterTable) : masterTable[j].instOk } }

TableRows ==
    { primaryTable[i] : i \in { j \in 1..Len(primaryTable) : primaryTable[j].instOk } }
    \cup { masterTable[i] : i \in { j \in 1..Len(masterTable) : masterTable[j].instOk } }

\* C18: after build_mapping_caches(force_reload=True) the mapping holds exactly the
\* symbols of the current tables, each with an id of its primary rows, or of its
\* master rows when the primary table has none, and the leverage caches hold only
\* leverages of rows of the current tables; nothing of an earlier generation survives.
C18_WholesaleRebuild ==
    [][ ReloadStep =>
          /\ DOMAIN _mapping_cache' = TableSymbols
          /\ \A u \in DOMAIN _mapping_cache' :
                 _mapping_cache'[u] \in
                     (IF TableIds(primaryTable, u) # {} THEN TableIds(primaryTable, u)
                      ELSE TableIds(masterTable, u))
          /\ \A inst \in DOMAIN _leverage_cache' :
                 \E row \in TableRows :
                     row.inst = inst /\ row.misOk /\ _leverage_cache'[inst] = row.mis
          /\ \A inst \in DOMAIN _mtf_leverage_cache' :
                 \E row \in TableRows :
                     row.inst = inst /\ row.mtfOk /\ _mtf_leverage_cache'[inst] = row.mtf ]_vars

\* C19: in every reachable state a symbol held in both the resolution cache and the
\* instrument mapping has the same instrument id in both (a forced reload having
\* invalidated the resolution cache).
C19_CacheFollowsMapping ==
    \A u \in (DOMAIN _security_id_cache) \cap (DOMAIN _mapping_cache) :
        _security_id_cache[u] = _mapping_cache[u]

\* The rows of a table for a symbol, in table order.
RowsFor(table, u) == SelectSeq(table, LAMBDA row : Upper(Strip(row.name)) = u)

\* A table holds several rows for the symbol and all of them are well-formed.
SeveralWellFormed(table, u) ==
    /\ Len(RowsFor(table, u)) >= 2
    /\ \A i \in 1..Len(RowsFor(table, u)) :
           LET row == RowsFor(table, u)[i] IN row.instOk /\ row.misOk /\ row.mtfOk

\* C20: when a table holds several well-formed rows for one symbol, a pass of
\* build_mapping_caches keeps the instrument id and the leverage of the first of
\* them: for the primary table always, for the master list when neither the primary
\* table nor the mapping before the pass holds the symbol.
C20_FirstWriteWins ==
    [][ ReloadStep =>
          \A u \in TableSymbols :
              /\ SeveralWellFormed(primaryTable, u) =>
                     LET first == RowsFor(primaryTable, u)[1]
                     IN  /\ _mapping_cache'[u] = first.inst
                         /\ _leverage_cache'[first.inst] = first.mis
              /\ ( /\ SeveralWellFormed(masterTable, u)
                   /\ RowsFor(primaryTable, u) = <<>>
                   /\ u \notin DOMAIN _mapping_cache ) =>
                     LET first == RowsFor(masterTable, u)[1]
                     IN  /\ _mapping_cache'[u] = first.inst
                         /\ _leverage_cache'[first.inst] = first.mis ]_vars


-----------------------------------------------------------------------------
(* Watchlist reconciliation: C21, C22, C23, C24, C25 *)

\* A step in which update_quotes_and_breakouts returned rows.
PassStep == wlop'.op = "update_quotes_and_breakouts" /\ ~wlop'.raised

\* C21: in the rows update_quotes_and_breakouts returns, every row that was not
\* stored with Action AUTO_BUYED has Action BUY when its Breakout is YES and an
\* empty Action when its Breakout is NO; no returned row has Action BUY together
\* with Breakout NO.
C21_ActionRule ==
    [][ PassStep =>
            \A i \in 1..Len(wlop'.data) :
                LET row == wlop'.data[i]
                IN  /\ i <= Len(watchlistDoc)
                    /\ row["Breakout"] \in {"YES", "NO"}
                    /\ watchlistDoc[i]["Action"] # "AUTO_BUYED" =>
                           row["Action"] = (IF row["Breakout"] = "YES" THEN "BUY" ELSE "")
                    /\ ~(row["Action"] = "BUY" /\ row["Breakout"] = "NO") ]_vars

\* A pass returned a row that an earlier pass had stamped as breaking out and that
\* now has Breakout NO and an empty Action, and the cleared row was stored.
C21_Witness ==
    /\ Reconciled
    /\ \E i \in 1..Len(wlop.data) :
           /\ wlop.data[i]["Time"] \in Times
           /\ wlop.data[i]["Breakout"] = "NO"
           /\ wlop.data[i]["Action"] = ""
           /\ i <= Len(watchlistDoc)
           /\ watchlistDoc[i] = CsvRow(wlop.data[i])

\* The instrument id update_quotes_and_breakouts resolves for a row has no entry in
\* the quotes supplied to the pass, or the row's symbol has no instrument id.
NoQuoteFor(row, live) ==
    LET symbol == row["Stock Name"]
    IN  \/ ~MappingHas(symbol)
        \/ MappingInstrument(symbol) = Num(0)
        \/ live.none
        \/ MappingInstrument(symbol).v \notin DOMAIN live.data

QuoteColumns == {"LTP", "High", "Low", "% Change"}

C23_BreakoutTimestamp ==
    [][ PassStep =>
            \A i \in 1..Len(wlop'.data) :
                LET row   == wlop'.data[i]
                    stamp == row["Breakout"] = "YES" /\ row["Action"] # "AUTO_BUYED"
                IN  /\ i <= Len(watchlistDoc)
                    /\ stamp <=> (row["Breakout"] = "YES"
                                  /\ watchlistDoc[i]["Action"] # "AUTO_BUYED")
                    /\ row["Time"] = (IF stamp THEN wlop'.now ELSE watchlistDoc[i]["Time"]) ]_vars

\* A row stored as breaking out with Action BUY and an earlier time came back from a
\* later pass with the later time (the write of that pass failed, so the stored row
\* still shows the earlier stamp), and a row marked AUTO_BUYED with Breakout YES
\* kept its time.
C23_Witness ==
    /\ Reconciled
    /\ wlop.wOk /\ ~wlop.sOk
    /\ Len(wlop.data) = 2 /\ Len(watchlistDoc) = 2
    /\ \E i, j \in 1..2 :
           /\ watchlistDoc[i]["Breakout"] = "YES"
           /\ watchlistDoc[i]["Action"] = "BUY"
           /\ watchlistDoc[i]["Time"] = "09:15:00"
           /\ wlop.data[i]["Breakout"] = "YES"
           /\ wlop.now = "09:16:00"
           /\ wlop.data[i]["Time"] = "09:16:00"
           /\ wlop.data[j]["Action"] = "AUTO_BUYED"
           /\ wlop.data[j]["Breakout"] = "YES"
           /\ wlop.data[j]["Time"] = watchlistDoc[j]["Time"]
           /\ wlop.data[j]["Time"] # wlop.now

\* C24: a call of update_quotes_and_breakouts during which the read of the master
\* list or the read of the watchlist document fails raises nothing.
C24_StorageFaultsCaught ==
    (/\ wlop.op = "update_quotes_and_breakouts"
     /\ ~wlop.wOk \/ ~wlop.mapOk)
        => ~wlop.raised

\* The instrument ids a returned row has: the one it carries and the one the master
\* list gives its symbol.
RowInstrumentIds(row) ==
    (IF row["Instrument ID"].k = "num" /\ row["Instrument ID"].v # 0
     THEN {row["Instrument ID"].v} ELSE {})
    \cup (IF MappingHas(row["Stock Name"]) /\ MappingInstrument(row["Stock Name"]).k = "num"
             /\ MappingInstrument(row["Stock Name"]).v # 0
          THEN {MappingInstrument(row["Stock Name"]).v} ELSE {})

\* The row holds the quote's last price, and its high and low or the last price.
HoldsQuote(row, q) ==
    /\ row["LTP"] = Num(q.last_price)
    /\ row["High"] = Num(IF q.ohlc THEN q.high ELSE q.last_price)
    /\ row["Low"] = Num(IF q.ohlc THEN q.low ELSE q.last_price)

\* C25: every row update_quotes_and_breakouts returns that has an instrument id,
\* carried in the row or given to its symbol by the master list, for which the
\* supplied quotes hold an entry, has the LTP, High and Low of that quote.
C25_QuoteByInstrumentId ==
    Reconciled =>
        \A i \in 1..Len(wlop.data) :
            \A id \in RowInstrumentIds(wlop.data[i]) :
                (~wlop.live.none /\ id \in DOMAIN wlop.live.data) =>
                    HoldsQuote(wlop.data[i], wlop.live.data[id])

-----------------------------------------------------------------------------
(* Bulk quote cache: C26, C27 *)

\* C26: a call of fetch_all_live_data_bulk made less than 600 seconds after the
\* previous pass, with no forced refresh since, returns the stored result of that
\* pass, leaves it stored and issues no provider request.
C26_CacheReuse ==
    (/\ bulk.op = "fetch_all_live_data_bulk"
     /\ bulk.priorTime # 0
     /\ bulk.at - bulk.priorTime < LIVE_DATA_CACHE_DURATION)
        => /\ bulk.result = bulk.priorCache
           /\ bulk.requests = <<>>
           /\ _live_data_cache = bulk.priorCache
           /\ _last_live_fetch_time = bulk.priorTime

\* The ids of a batch.
BatchIds(batch) == { batch[i] : i \in 1..Len(batch) }

\* C27: with the provider client initialised, refresh_live_data issues the requests
\* of a full pass over the instrument list whatever the age and content of the
\* cached result, and afterwards the cache holds exactly the quotes answered in that
\* pass, stamped with the time of the call.  (Without a provider client there is
\* nothing to ask: the call returns no quotes and leaves the clock at zero.)
C27_ForcedRefresh ==
    /\ (bulk.op = "refresh_live_data" /\ ~tv_dhan)
        => /\ bulk.requests = <<>>
           /\ bulk.result = EmptyMap
           /\ _last_live_fetch_time = 0
    /\ (bulk.op = "refresh_live_data" /\ tv_dhan)
        => /\ _df_map.loaded
           /\ bulk.requests = BatchList(_df_map.ids, BATCH_SIZE)
           /\ _last_live_fetch_time = bulk.at
           /\ _live_data_cache = bulk.result
           /\ \A b \in 1..Len(bulk.requests) :
                  bulk.outcomes[b].kind = "all" =>
                      BatchIds(bulk.requests[b]) \subseteq DOMAIN _live_data_cache
           /\ \A id \in DOMAIN _live_data_cache :
                  \E b \in 1..Len(bulk.requests) :
                      /\ id \in BatchIds(bulk.requests[b])
                      /\ bulk.outcomes[b].kind = "all"
                      /\ _live_data_cache[id].last_price = bulk.outcomes[b].price

\* A refresh made right after a pass that had stored a quote at 101 issued a
\* request and left the cache holding the new quote at 102.
C27_Witness ==
    /\ bulk.op = "refresh_live_data"
    /\ tv_dhan
    /\ bulk.priorCache = (1 :> [last_price |-> 101])
    /\ bulk.priorTime # 0
    /\ bulk.at - bulk.priorTime < LIVE_DATA_CACHE_DURATION
    /\ bulk.requests = << <<1>> >>
    /\ _live_data_cache = (1 :> [last_price |-> 102])

-----------------------------------------------------------------------------
(* Live quote fetcher: C28 *)

RECURSIVE Flatten(_)
Flatten(seqs) == IF seqs = <<>> THEN <<>> ELSE Head(seqs) \o Flatten(Tail(seqs))

\* C28: with the provider client initialised, fetch_live_data issues its requests
\* for batches that each hold between 1 and 1000 ids and that, put one after the
\* other in request order, are the input list; a failing batch does not stop the
\* requests that follow.  (Without a provider client no request is issued.)
C28_BatchPartition ==
    /\ (fetch.called /\ ~wl_dhan) => fetch.requests = <<>>
    /\ (fetch.called /\ wl_dhan) =>
           /\ ~fetch.raised
           /\ \A b \in 1..Len(fetch.requests) :
                  /\ Len(fetch.requests[b]) >= 1
                  /\ Len(fetch.requests[b]) <= BATCH_SIZE
           /\ Flatten(fetch.requests) = fetch.instrument_ids

\* A list of 2001 ids was requested in three batches of 1000, 1000 and 1 ids although
\* the call of the second batch raised.
C28_Witness ==
    /\ fetch.called
    /\ wl_dhan
    /\ Len(fetch.instrument_ids) = 2 * BATCH_SIZE + 1
    /\ Len(fetch.requests) = 3
    /\ Len(fetch.requests[1]) = BATCH_SIZE
    /\ Len(fetch.requests[3]) = 1
    /\ fetch.outcomes[2] = "raise"
    /\ fetch.requests[3][1] = fetch.instrument_ids[2 * BATCH_SIZE + 1]

-----------------------------------------------------------------------------
(* Watchlist persistence: C29 *)

WatchlistOps ==
    {"add_stock", "mark_auto_buy", "delete_stock", "update_stock",
     "update_quotes_and_breakouts"}

\* C29: when the read of the watchlist document fails during add_stock,
\* mark_auto_buy, delete_stock, update_stock or update_quotes_and_breakouts, every
\* row stored before the operation is stored after it.
C29_FailedReadKeepsRows ==
    [][ (wlop'.op \in WatchlistOps /\ ~wlop'.wOk) =>
            \A i \in 1..Len(watchlistDoc) :
                \E j \in 1..Len(watchlistDoc') : watchlistDoc'[j] = watchlistDoc[i] ]_vars

-----------------------------------------------------------------------------
(* Order submitter: C30 *)

\* The provider raised or reported something other than success.
ProviderFailed ==
    \/ order.response.kind \in {"raise", "notdict"}
    \/ order.response.kind = "dict" /\ order.response.status # "success"

\* C30: one call of place_order invokes the provider's place_order at most once, and
\* only after get_cached_security_id returned an instrument id and the payload was
\* built; when the symbol is not resolved no request is sent, and when the provider
\* raises or reports failure the single request is not repeated and the call
\* returns a failure.
C30_NoOrderWithoutResolution ==
    order.op = "place_order" =>
        /\ order.placeCalls \in {0, 1}
        /\ order.placeCalls = 1 => (order.resolved /\ ~order.built.raised)
        /\ ~order.resolved =>
               /\ order.placeCalls = 0
               /\ order.response.kind = "notcalled"
               /\ ~order.outcome.raised /\ ~order.outcome.value.success
        /\ ProviderFailed =>
               /\ order.placeCalls = 1
               /\ ~order.outcome.raised /\ ~order.outcome.value.success

\* The provider reported failure for an order on a resolved symbol: one request, a
\* failure returned.
C30_Witness ==
    /\ order.op = "place_order"
    /\ order.resolved
    /\ ~order.built.raised
    /\ order.response.kind = "dict" /\ order.response.status = "failure"
    /\ order.placeCalls = 1
    /\ ~order.outcome.value.success
====
